---- MODULE Spec2Model ----
(***************************************************************************)
(* Model of the MCDM engine of SESP_Model (src/mcdm/mcdm_utils.py): the    *)
(* AHP matrix builder and eigenvector weighting with consistency check,    *)
(* and the TOPSIS normalisation / ideal solutions / closeness / ranking.   *)
(*                                                                         *)
(* Numbers.  The engine computes with IEEE doubles.  The model computes    *)
(* with exact rationals <<p, q>> (q > 0, lowest terms), plus the three     *)
(* values a NumPy division by zero produces (PosInf, NegInf, NaN).         *)
(* np.sqrt is modelled by Sqrt, which rounds up to the grid 1/SqrtScale    *)
(* and is exact on that grid.  np.linalg.eig is a library call: it is      *)
(* modelled by its contract (M v = lambda v) over a bounded grid of        *)
(* eigenvectors, with the scaling and sign of the returned eigenvector     *)
(* left open.  NumPy's default argsort is not a stable sort: its order of  *)
(* equal keys is left open too.                                            *)
(***************************************************************************)
EXTENDS Integers, Sequences, FiniteSets, TLC

VARIABLES
    apc,            \* where the AHP caller is: start, built, given, done
    n,              \* matrix size
    comparisons,    \* the judgment mapping, as its items in iteration order
    matrix,         \* the comparison matrix
    principal,      \* principal_eigenvector inside ahp_weights
    result,         \* what ahp_consistency_ratio returned
    tpc,            \* where the TOPSIS caller is
    targs,          \* the arguments of the TOPSIS call
    tres,           \* what the TOPSIS call returned
    dpc,            \* where the DEA caller is
    dargs,          \* the arguments of the DEA call, and what the LP solver will do
    dres,           \* what the DEA calls returned
    cache,          \* config/loader.py: the module-level dict _cache
    disk,           \* the configuration files as they are on disk
    lpc,            \* what the last _get_cached call did
    plans,          \* bucket_model.py: the plan objects SUBSCRIPTION_PLANS refers to
    ipc,            \* where the incentive-compatibility sweep is
    iargs,          \* the arguments of the sweep
    ires,           \* what the sweep has collected and observed
    ri_table,       \* mcdm_utils.py: the module-level dict RANDOM_INDEX
    memo,           \* the engine calls made so far, with their results
    lib             \* how the library routines break their ties

ahpVars == <<apc, n, comparisons, matrix, principal, result>>
topsisVars == <<tpc, targs, tres>>
deaVars == <<dpc, dargs, dres>>
loaderVars == <<cache, disk, lpc>>
icVars == <<plans, ipc, iargs, ires>>
pureVars == <<ri_table, memo, lib>>
restVars == <<loaderVars, icVars, pureVars>>
vars == <<apc, n, comparisons, matrix, principal, result, tpc, targs, tres, dpc, dargs, dres,
          cache, disk, lpc, plans, ipc, iargs, ires, ri_table, memo, lib>>

-----------------------------------------------------------------------------
(* Bounds of the model *)

\* largest matrix size for which judgments are drawn and eig searches the full grid
MaxN == 3
\* largest matrix size at all (sizes above MaxN: all-ones and identity matrices)
MaxSize == 11
\* most entries of the judgment mapping
MaxJudgments == 2
\* eigenvector grid: integer entries in -EigBound..EigBound
EigBound == 2
\* most alternatives (rows) of a decision matrix
MaxAlt == 3
\* largest entry of a decision matrix
MaxEntry == 3
\* Sqrt rounds up to multiples of 1/SqrtScale
SqrtScale == 60
\* most _get_cached calls in one run
MaxCalls == 4
\* most test values handed to analyze_ic_sensitivity
MaxValues == 3

-----------------------------------------------------------------------------
(* Rational arithmetic standing for float arithmetic *)

Abs(x) == IF x < 0 THEN -x ELSE x

RECURSIVE GCD(_, _)
GCD(a, b) == IF b = 0 THEN a ELSE GCD(b, a % b)

\* the rational p/q in lowest terms with positive denominator (q # 0)
R(p, q) ==
    LET s == IF q < 0 THEN -1 ELSE 1
        g == GCD(Abs(p), Abs(q))
    IN  <<(s * p) \div g, (s * q) \div g>>

Zero == <<0, 1>>
One == <<1, 1>>
PosInf == <<1, 0>>
NegInf == <<-1, 0>>
NaN == <<0, 0>>

IsFinite(a) == a[2] # 0

\* sums are taken over the common factor of the denominators
RAdd(a, b) ==
    IF ~IsFinite(a) \/ ~IsFinite(b) THEN R(a[1] * b[2] + b[1] * a[2], a[2] * b[2])
    ELSE LET g == GCD(a[2], b[2])
         IN  R(a[1] * (b[2] \div g) + b[1] * (a[2] \div g), (a[2] \div g) * b[2])
RSub(a, b) ==
    IF ~IsFinite(a) \/ ~IsFinite(b) THEN R(a[1] * b[2] - b[1] * a[2], a[2] * b[2])
    ELSE LET g == GCD(a[2], b[2])
         IN  R(a[1] * (b[2] \div g) - b[1] * (a[2] \div g), (a[2] \div g) * b[2])
\* common factors are cancelled before multiplying, to keep the integers small
RMul(a, b) ==
    IF ~IsFinite(a) \/ ~IsFinite(b) THEN R(a[1] * b[1], a[2] * b[2])
    ELSE LET g1 == GCD(Abs(a[1]), b[2])
             g2 == GCD(Abs(b[1]), a[2])
         IN  R((a[1] \div g1) * (b[1] \div g2), (a[2] \div g2) * (b[2] \div g1))
\* unary minus; -nan is nan, -inf swaps sign
RNeg(a) == <<-a[1], a[2]>>
\* NumPy float division: x/0 is +-inf, 0/0 is nan (a warning, no exception)
RDiv(a, b) ==
    IF ~IsFinite(a) \/ ~IsFinite(b) THEN NaN
    ELSE IF b[1] = 0
         THEN (IF a[1] > 0 THEN PosInf ELSE IF a[1] < 0 THEN NegInf ELSE NaN)
         ELSE LET g1 == GCD(Abs(a[1]), Abs(b[1]))
                  g2 == GCD(a[2], b[2])
              IN  R((a[1] \div g1) * (b[2] \div g2), (a[2] \div g2) * (b[1] \div g1))
\* a < b; every comparison with nan is false
RLt(a, b) ==
    IF a = NaN \/ b = NaN THEN FALSE
    ELSE IF ~IsFinite(a) \/ ~IsFinite(b)
         THEN (a = NegInf /\ b # NegInf) \/ (b = PosInf /\ a # PosInf)
         ELSE LET g1 == GCD(Abs(a[1]), Abs(b[1]))
                  h1 == IF g1 = 0 THEN 1 ELSE g1
                  g2 == GCD(a[2], b[2])
              IN  (a[1] \div h1) * (b[2] \div g2) < (b[1] \div h1) * (a[2] \div g2)
RLe(a, b) == a # NaN /\ b # NaN /\ (a = b \/ RLt(a, b))
RAbs(a) == <<Abs(a[1]), a[2]>>

\* f[0] + ... + f[k-1]
RECURSIVE RSum(_, _)
RSum(f, k) == IF k = 0 THEN Zero ELSE RAdd(RSum(f, k - 1), f[k - 1])

RMaxOf(S) == CHOOSE x \in S : \A y \in S : RLe(y, x)
RMinOf(S) == CHOOSE x \in S : \A y \in S : RLe(x, y)

-----------------------------------------------------------------------------
(* AHP: matrices *)

Idx(k) == 0 .. (k - 1)

\* np.ones((k, k))
Ones(k) == [i \in Idx(k) |-> [j \in Idx(k) |-> One]]
\* np.eye(k)
Eye(k) == [i \in Idx(k) |-> [j \in Idx(k) |-> IF i = j THEN One ELSE Zero]]

\* judgment values offered to the matrix builder (strictly positive ratios)
Scale == {R(1, 2), R(2, 1), R(3, 1)}

\* a judgment is one item (i, j) -> value of the mapping
Judgments(k) == [i : Idx(k), j : Idx(k), value : Scale]

\* the cell pair {i, j} an item writes, numbered row by row
CellOf(c) ==
    IF c.i <= c.j THEN c.i * MaxSize + c.j ELSE c.j * MaxSize + c.i

\* the mapping's items in iteration order: keys are pairwise distinct.  Items
\* that write different cells commute, so they are listed in the order of
\* their cells; the two keys (i, j) and (j, i) of one cell come in both orders.
JudgmentSeqs(k) ==
    UNION {{s \in [1 .. len -> Judgments(k)] :
               \A a, b \in 1 .. len :
                   a < b => /\ <<s[a].i, s[a].j>> # <<s[b].i, s[b].j>>
                            /\ CellOf(s[a]) <= CellOf(s[b])} :
           len \in 0 .. MaxJudgments}

\* matrix[i, j] = value; matrix[j, i] = 1 / value  (one loop iteration)
SetJudgmentWrong(m, c) ==
    IF c.i # c.j
    THEN [m EXCEPT ![c.i][c.j] = c.value, ![c.j][c.i] = c.value]
    ELSE m
\* only the keys of the upper triangle are read
SetJudgmentUpper(m, c) ==
    IF c.i < c.j
    THEN [m EXCEPT ![c.i][c.j] = c.value, ![c.j][c.i] = RDiv(One, c.value)]
    ELSE m
SetJudgment(m, c) ==
    IF c.i < c.j
    THEN [m EXCEPT ![c.i][c.j] = c.value, ![c.j][c.i] = RDiv(One, c.value)]
    ELSE IF c.i > c.j
         THEN [m EXCEPT ![c.i][c.j] = c.value, ![c.j][c.i] = RDiv(One, c.value)]
         ELSE m

RECURSIVE ApplyJudgments(_, _)
ApplyJudgments(m, s) ==
    IF s = <<>> THEN m ELSE ApplyJudgments(SetJudgment(m, Head(s)), Tail(s))

create_comparison_matrix(comps, k) == ApplyJudgments(Ones(k), comps)

\* matrices a caller builds itself (np.eye, np.array literals) and hands to the engine
Row2(a, b) == [j \in Idx(2) |-> IF j = 0 THEN a ELSE b]
Row3(a, b, c) == [j \in Idx(3) |-> IF j = 0 THEN a ELSE IF j = 1 THEN b ELSE c]
Mat2(r0, r1) == [i \in Idx(2) |-> IF i = 0 THEN r0 ELSE r1]
Mat3(r0, r1, r2) == [i \in Idx(3) |-> IF i = 0 THEN r0 ELSE IF i = 1 THEN r1 ELSE r2]

\* a > b, b > c, but c > a: the judgments of test_inconsistent_matrix_cr_above_threshold
Inconsistent3 ==
    Mat3(Row3(One, R(5, 1), R(1, 5)),
         Row3(R(1, 5), One, R(5, 1)),
         Row3(R(5, 1), R(1, 5), One))
\* a milder cycle: lambda_max = 3.5
Cycle3 ==
    Mat3(Row3(One, R(2, 1), R(1, 2)),
         Row3(R(1, 2), One, R(2, 1)),
         Row3(R(2, 1), R(1, 2), One))
\* lambda_max = 3.116, so CI = 0.058 and CR = CI / 0.58 is exactly 0.10
Boundary3 ==
    Mat3(Row3(R(3116, 1000), Zero, Zero),
         Row3(Zero, One, Zero),
         Row3(Zero, Zero, One))
\* just below the boundary: lambda_max = 3.1
Below3 ==
    Mat3(Row3(R(31, 10), Zero, Zero),
         Row3(Zero, One, Zero),
         Row3(Zero, Zero, One))
\* 2 x 2 matrices that are not reciprocal
NonRecip2 == Mat2(Row2(One, R(4, 1)), Row2(One, One))
Symmetric2 == Mat2(Row2(One, R(-1, 1)), Row2(R(-1, 1), One))

SuppliedMatrices(k) ==
    {Eye(k)}
    \cup (IF k = 2 THEN {NonRecip2, Symmetric2} ELSE {})
    \cup (IF k = 3 THEN {Inconsistent3, Cycle3, Boundary3, Below3} ELSE {})

IsPositive(m, k) == \A i, j \in Idx(k) : RLt(Zero, m[i][j])
IsReciprocal(m, k) ==
    \A i, j \in Idx(k) : m[j][i] = RDiv(One, m[i][j])
IsTriangular(m, k) ==
    \/ \A i, j \in Idx(k) : i > j => m[i][j] = Zero
    \/ \A i, j \in Idx(k) : i < j => m[i][j] = Zero

-----------------------------------------------------------------------------
(* AHP: np.linalg.eig by its contract *)

\* candidate eigenvectors: the full integer grid for small matrices, the unit
\* vectors and the constant vectors for the large ones
EigGrid(k) ==
    IF k <= MaxN
    THEN [Idx(k) -> (-EigBound) .. EigBound] \ {[i \in Idx(k) |-> 0]}
    ELSE {[i \in Idx(k) |-> IF i = e THEN c ELSE 0] :
              e \in Idx(k), c \in {-1, 1}}
         \cup {[i \in Idx(k) |-> c] : c \in {-1, 1}}

Lcm(a, b) == (a \div GCD(a, b)) * b

\* a common denominator of row[0 .. c-1]
RECURSIVE RowDen(_, _)
RowDen(row, c) == IF c = 0 THEN 1 ELSE Lcm(RowDen(row, c - 1), row[c - 1][2])

\* a common denominator of the rows m[0 .. r-1]
RECURSIVE CommonDen(_, _, _)
CommonDen(m, k, r) ==
    IF r = 0 THEN 1 ELSE Lcm(CommonDen(m, k, r - 1), RowDen(m[r - 1], k))

\* row[0] * v[0] + ... + row[c-1] * v[c-1], the row scaled to integers by den
RECURSIVE IntDot(_, _, _, _)
IntDot(row, v, den, c) ==
    IF c = 0 THEN 0
    ELSE IntDot(row, v, den, c - 1)
         + row[c - 1][1] * (den \div row[c - 1][2]) * v[c - 1]

\* the eigenvalue of v when m v = lambda v for some lambda, else NaN
EigenvalueOf(m, v, k, den) ==
    LET piv == CHOOSE i \in Idx(k) : v[i] # 0 /\ \A j \in Idx(k) : j < i => v[j] = 0
        top == IntDot(m[piv], v, den, k)
    IN  IF \A i \in Idx(k) : IntDot(m[i], v, den, k) * v[piv] = top * v[i]
        THEN R(top, den * v[piv])
        ELSE NaN

\* the eigenpairs of m on the grid
Eig(m, k) ==
    LET den == CommonDen(m, k, k)
    IN  {p \in {[lam |-> EigenvalueOf(m, v, k, den), vec |-> v] : v \in EigGrid(k)} :
            p.lam # NaN}

\* the grid holds the eigenvalue of largest real part: m is positive and the
\* grid holds its positive (Perron) eigenvector, or m is triangular and the grid
\* holds an eigenvector of its largest diagonal entry, or the grid holds k
\* distinct eigenvalues
Representable(m, k, E) ==
    \/ /\ IsPositive(m, k)
       /\ \E p \in E : \A i \in Idx(k) : p.vec[i] > 0
    \/ /\ IsTriangular(m, k)
       /\ \E p \in E : p.lam = RMaxOf({m[i][i] : i \in Idx(k)})
    \/ Cardinality({p.lam : p \in E}) = k

\* max_idx = np.argmax(eigenvalues.real): the eigenvectors eig may return for it
PrincipalPairs(E) ==
    LET top == RMaxOf({p.lam : p \in E})
    IN  {p \in E : p.lam = top}

-----------------------------------------------------------------------------
(* AHP: weights and consistency *)

\* mutant: no fallback for sizes beyond the table
RANDOM_INDEX_NoDefault(k) ==
    CASE k = 3 -> R(58, 100)
      [] k = 4 -> R(90, 100)
      [] k = 5 -> R(112, 100)
      [] k = 6 -> R(124, 100)
      [] k = 7 -> R(132, 100)
      [] k = 8 -> R(141, 100)
      [] k = 9 -> R(145, 100)
      [] k = 10 -> R(149, 100)
      [] OTHER -> Zero

\* RANDOM_INDEX.get(n, 1.49)
RANDOM_INDEX(k) ==
    CASE k = 1 -> R(0, 100)
      [] k = 2 -> R(0, 100)
      [] k = 3 -> R(58, 100)
      [] k = 4 -> R(90, 100)
      [] k = 5 -> R(112, 100)
      [] k = 6 -> R(124, 100)
      [] k = 7 -> R(132, 100)
      [] k = 8 -> R(141, 100)
      [] k = 9 -> R(145, 100)
      [] k = 10 -> R(149, 100)
      [] OTHER -> R(149, 100)

\* mutant: the eigenvector is scaled by its largest entry instead of its sum
NormalizeByMax(v, k) ==
    LET top == CHOOSE x \in {v[i] : i \in Idx(k)} : \A i \in Idx(k) : v[i] <= x
    IN  [i \in Idx(k) |-> RDiv(<<v[i], 1>>, <<top, 1>>)]

\* weights = principal_eigenvector / np.sum(principal_eigenvector)
NormalizeToSum(v, k) ==
    LET total == RSum([i \in Idx(k) |-> <<v[i], 1>>], k)
    IN  [i \in Idx(k) |-> RDiv(<<v[i], 1>>, total)]

\* if np.any(weights < 0): weights = -weights
FixSign(w, k) ==
    IF \E i \in Idx(k) : RLt(w[i], Zero) THEN [i \in Idx(k) |-> RNeg(w[i])] ELSE w

\* mutant: CI divides by n instead of n - 1
ahp_weights_ci_n(m, k, p) ==
    [weights |-> FixSign(NormalizeToSum(p.vec, k), k),
     lambda_max |-> p.lam,
     ci |-> IF k > 1 THEN RDiv(RSub(p.lam, <<k, 1>>), <<k, 1>>) ELSE Zero]

\* ahp_weights, given the principal eigenpair eig returned
ahp_weights(m, k, p) ==
    [weights |-> FixSign(NormalizeToSum(p.vec, k), k),
     lambda_max |-> p.lam,
     ci |-> IF k > 1 THEN RDiv(RSub(p.lam, <<k, 1>>), <<k - 1, 1>>) ELSE Zero]

\* cr = ci / ri if ri > 0 else 0
ConsistencyRatio(ci, ri) == IF RLt(Zero, ri) THEN RDiv(ci, ri) ELSE Zero

\* mutant: the threshold itself counts as consistent
IsConsistentLe(cr) == RLe(cr, R(10, 100))

\* is_consistent = cr < 0.10
IsConsistent(cr) == RLt(cr, R(10, 100))

\* f"{cr:.4f}": cr in ten-thousandths, rounded to nearest
Format4(cr) == (2 * cr[1] * 10000 + cr[2]) \div (2 * cr[2])

ahp_consistency_ratio(m, k, p) ==
    LET w == ahp_weights(m, k, p)
        ri == RANDOM_INDEX(k)
        cr == ConsistencyRatio(w.ci, ri)
        ok == IsConsistent(cr)
    IN  [weights |-> w.weights,
         lambda_max |-> w.lambda_max,
         ci |-> w.ci,
         ri |-> ri,
         cr |-> cr,
         is_consistent |-> ok,
         message |-> IF ok
                     THEN <<"Consistent (CR=", Format4(cr), " < 0.10)">>
                     ELSE <<"INCONSISTENT! CR=", Format4(cr), " >= 0.10. Revise judgments.">>]

NoMatrix == <<>>
NoVector == <<>>
NoResult == [status |-> "none"]

InitAhp ==
    /\ apc = "start"
    /\ n \in 1 .. MaxSize
    /\ comparisons \in (IF n <= MaxN THEN JudgmentSeqs(n) ELSE {<<>>})
    /\ matrix = NoMatrix
    /\ principal = NoVector
    /\ result = NoResult
    /\ tpc = "unused"
    /\ targs = <<>>
    /\ tres = <<>>
    /\ dpc = "unused" /\ dargs = <<>> /\ dres = <<>>
    /\ cache = <<>> /\ disk = <<>> /\ lpc = "unused"
    /\ plans = <<>> /\ ipc = "unused" /\ iargs = <<>> /\ ires = <<>>
    /\ ri_table = <<>> /\ memo = <<>> /\ lib = <<>>

\* matrix = create_comparison_matrix(comparisons, n); the mapping stays with
\* the caller as it was
CreateComparisonMatrix ==
    /\ apc = "start"
    /\ matrix' = create_comparison_matrix(comparisons, n)
    /\ apc' = "built"
    /\ UNCHANGED <<n, comparisons, principal, result>>
    /\ UNCHANGED topsisVars
    /\ UNCHANGED deaVars
    /\ UNCHANGED restVars

\* the caller builds the matrix itself (np.eye(n), an array literal)
SupplyMatrix ==
    /\ apc = "start"
    /\ comparisons = <<>>
    /\ \E m \in SuppliedMatrices(n) : matrix' = m
    /\ apc' = "given"
    /\ UNCHANGED <<n, comparisons, principal, result>>
    /\ UNCHANGED topsisVars
    /\ UNCHANGED deaVars
    /\ UNCHANGED restVars

\* result = ahp_consistency_ratio(matrix)
AhpConsistencyRatio ==
    /\ apc \in {"built", "given"}
    /\ LET E == Eig(matrix, n)
       IN  /\ Representable(matrix, n, E) = TRUE
           /\ \E p \in PrincipalPairs(E) :
                  /\ principal' = p.vec
                  /\ result' = ahp_consistency_ratio(matrix, n, p)
    /\ apc' = "done"
    /\ UNCHANGED <<n, comparisons, matrix>>
    /\ UNCHANGED topsisVars
    /\ UNCHANGED deaVars
    /\ UNCHANGED restVars

AhpNext ==
    \/ CreateComparisonMatrix
    \/ SupplyMatrix
    \/ AhpConsistencyRatio

SpecAhp == InitAhp /\ [][AhpNext]_vars

-----------------------------------------------------------------------------
(* Claims about the AHP engine, checked under SpecAhp *)

\* C1: the matrix create_comparison_matrix returns has every diagonal entry 1,
\* every entry strictly positive, and entry (j,i) = 1 / entry (i,j) for all i, j.
C1_ReciprocalMatrix ==
    apc = "built" =>
        \A i, j \in Idx(n) :
            /\ matrix[i][i] = One
            /\ RLt(Zero, matrix[i][j])
            /\ matrix[j][i] = RDiv(One, matrix[i][j])

\* a matrix built from two judgments, one of them given below the diagonal
C1_Witness ==
    /\ apc = "built"
    /\ n = 3
    /\ matrix[0][1] = R(3, 1)
    /\ matrix[1][0] = R(1, 3)
    /\ matrix[2][0] = R(2, 1)

\* C2: for a positive reciprocal matrix the weights ahp_weights returns sum to 1
\* and none is negative, whatever sign and length eig gave the eigenvector.
C2_WeightsSumToOne ==
    (apc = "done" /\ IsPositive(matrix, n) /\ IsReciprocal(matrix, n)) =>
        /\ RSum(result.weights, n) = One
        /\ \A i \in Idx(n) : RLe(Zero, result.weights[i])

\* eig returned the principal eigenvector of a 3 x 3 matrix with all entries negative
C2_Witness ==
    /\ apc = "done"
    /\ n = 3
    /\ IsPositive(matrix, n) /\ IsReciprocal(matrix, n)
    /\ matrix # Ones(3)
    /\ \A i \in Idx(n) : principal[i] < 0

C4_ConsistencyFlag ==
    apc = "done" =>
        /\ result.cr = (IF result.ri = Zero THEN Zero ELSE RDiv(result.ci, result.ri))
        /\ result.is_consistent <=> (result.cr # R(1, 10) /\ RLe(result.cr, R(1, 10)))
        /\ result.is_consistent => result.message[1] = "Consistent (CR="
        /\ ~result.is_consistent => result.message[1] = "INCONSISTENT! CR="

\* CR is exactly 0.10 and the matrix is classified inconsistent
C4_Witness ==
    /\ apc = "done"
    /\ result.cr = R(1, 10)
    /\ ~result.is_consistent
    /\ result.message[1] = "INCONSISTENT! CR="

\* Saaty's table in hundredths, n = 1 .. 10
SaatyHundredths == <<0, 0, 58, 90, 112, 124, 132, 141, 145, 149>>

\* C5: RI is the table value of the matrix size for n in 1..10 and 1.49 above;
\* for n <= 2 the CR is 0 and the matrix is classified consistent.
C5_RandomIndexBySize ==
    apc = "done" =>
        /\ result.ri = R(IF n <= 10 THEN SaatyHundredths[n] ELSE 149, 100)
        /\ n <= 2 => (result.cr = Zero /\ result.is_consistent)

\* a matrix larger than the table
C5_Witness ==
    /\ apc = "done"
    /\ n > 10
    /\ result.ri = R(149, 100)

-----------------------------------------------------------------------------
(* TOPSIS: the functions *)

\* number of rows and columns of a matrix given as rows of columns
Rows(d) == Cardinality(DOMAIN d)
Cols(d) == Cardinality(DOMAIN d[0])

\* least r >= lo with r * r * b >= a, found between lo and hi
RECURSIVE LeastRoot(_, _, _, _)
LeastRoot(a, b, lo, hi) ==
    IF lo >= hi THEN lo
    ELSE LET mid == (lo + hi) \div 2
         IN  IF mid * mid * b >= a
             THEN LeastRoot(a, b, lo, mid)
             ELSE LeastRoot(a, b, mid + 1, hi)

\* np.sqrt of a non-negative number, rounded up to a multiple of 1/SqrtScale
Sqrt(x) ==
    LET a == x[1] * SqrtScale * SqrtScale
        b == x[2]
    IN  R(LeastRoot(a, b, 0, SqrtScale * (x[1] \div x[2] + 1)), SqrtScale)

RSquare(x) == RMul(x, x)

\* f itself; the comparison makes the model checker tabulate f once instead of
\* recomputing f[x] at every use
Eval(f) == IF f = f THEN f ELSE f

\* mutant: the zero norm is not replaced, and the column is divided by 0
normalize_matrix_unguarded(d) ==
    LET m == Rows(d)
        c == Cols(d)
        col_norms == Eval([j \in Idx(c) |-> Sqrt(RSum([i \in Idx(m) |-> RSquare(d[i][j])], m))])
    IN  [i \in Idx(m) |-> [j \in Idx(c) |-> RDiv(d[i][j], col_norms[j])]]

\* mutant: np.sum without axis=0, every column divided by the norm of the whole matrix
normalize_matrix_whole(d) ==
    LET m == Rows(d)
        c == Cols(d)
        total == RSum([j \in Idx(c) |-> RSum([i \in Idx(m) |-> RSquare(d[i][j])], m)], c)
        norm == IF Sqrt(total) = Zero THEN One ELSE Sqrt(total)
    IN  [i \in Idx(m) |-> [j \in Idx(c) |-> RDiv(d[i][j], norm)]]

\* normalize_matrix: each column divided by its Euclidean norm, 1 for a zero norm
normalize_matrix(d) ==
    LET m == Rows(d)
        c == Cols(d)
        norms == Eval([j \in Idx(c) |-> Sqrt(RSum([i \in Idx(m) |-> RSquare(d[i][j])], m))])
        col_norms == Eval([j \in Idx(c) |-> IF norms[j] = Zero THEN One ELSE norms[j]])
    IN  [i \in Idx(m) |-> [j \in Idx(c) |-> RDiv(d[i][j], col_norms[j])]]

\* weighted_matrix: normalized_matrix * weights (column j times weights[j])
weighted_matrix(nm, w) ==
    [i \in DOMAIN nm |-> [j \in DOMAIN nm[i] |-> RMul(nm[i][j], w[j])]]

\* str.lower() on the criterion tags the callers use
Lower(tag) ==
    CASE tag = "Benefit" -> "benefit"
      [] tag = "BENEFIT" -> "benefit"
      [] tag = "Cost" -> "cost"
      [] tag = "COST" -> "cost"
      [] OTHER -> tag

Column(w, j) == {w[i][j] : i \in DOMAIN w}

\* mutant: the tag is compared as written, without lower()
ideal_solutions_case_sensitive(w, criteria_types) ==
    LET c == Cols(w)
    IN  [ideal |-> [j \in Idx(c) |->
                        IF criteria_types[j] = "benefit"
                        THEN RMaxOf(Column(w, j)) ELSE RMinOf(Column(w, j))],
         negative_ideal |-> [j \in Idx(c) |->
                        IF criteria_types[j] = "benefit"
                        THEN RMinOf(Column(w, j)) ELSE RMaxOf(Column(w, j))]]

\* only the tag 'cost' takes the minimum as ideal; any other tag is a benefit
ideal_solutions_cost_only(w, criteria_types) ==
    LET c == Cols(w)
    IN  [ideal |-> [j \in Idx(c) |->
                        IF Lower(criteria_types[j]) = "cost"
                        THEN RMinOf(Column(w, j)) ELSE RMaxOf(Column(w, j))],
         negative_ideal |-> [j \in Idx(c) |->
                        IF Lower(criteria_types[j]) = "cost"
                        THEN RMaxOf(Column(w, j)) ELSE RMinOf(Column(w, j))]]

\* ideal_solutions: per column, max and min for 'benefit', swapped otherwise
ideal_solutions(w, criteria_types) ==
    LET c == Cols(w)
    IN  [ideal |-> [j \in Idx(c) |->
                        IF Lower(criteria_types[j]) = "benefit"
                        THEN RMaxOf(Column(w, j)) ELSE RMinOf(Column(w, j))],
         negative_ideal |-> [j \in Idx(c) |->
                        IF Lower(criteria_types[j]) = "benefit"
                        THEN RMinOf(Column(w, j)) ELSE RMaxOf(Column(w, j))]]

\* Euclidean distance of row i of w to the point ref
Distance(w, i, ref) ==
    LET c == Cols(w)
    IN  Sqrt(RSum([j \in Idx(c) |-> RSquare(RSub(w[i][j], ref[j]))], c))

\* mutant: the two reference points are passed in the other order
separation_measures_swapped(w, ideal, negative_ideal) ==
    [s_plus |-> [i \in DOMAIN w |-> Distance(w, i, negative_ideal)],
     s_minus |-> [i \in DOMAIN w |-> Distance(w, i, ideal)]]

\* separation_measures: distances to the ideal and to the negative-ideal
separation_measures(w, ideal, negative_ideal) ==
    [s_plus |-> [i \in DOMAIN w |-> Distance(w, i, ideal)],
     s_minus |-> [i \in DOMAIN w |-> Distance(w, i, negative_ideal)]]

\* mutant: the distance to the ideal in the numerator
closeness_scores_swapped(s_plus, s_minus) ==
    LET sum == Eval([i \in DOMAIN s_plus |-> RAdd(s_plus[i], s_minus[i])])
        denominator == Eval([i \in DOMAIN s_plus |-> IF sum[i] = Zero THEN One ELSE sum[i]])
    IN  [i \in DOMAIN s_plus |-> RDiv(s_plus[i], denominator[i])]

\* mutant: the zero denominator is not replaced
closeness_scores_unguarded(s_plus, s_minus) ==
    [i \in DOMAIN s_plus |-> RDiv(s_minus[i], RAdd(s_plus[i], s_minus[i]))]

\* closeness_scores: s_minus / (s_plus + s_minus), the denominator 1 when it is 0
closeness_scores(s_plus, s_minus) ==
    LET sum == Eval([i \in DOMAIN s_plus |-> RAdd(s_plus[i], s_minus[i])])
        denominator == Eval([i \in DOMAIN s_plus |-> IF sum[i] = Zero THEN One ELSE sum[i]])
    IN  [i \in DOMAIN s_plus |-> RDiv(s_minus[i], denominator[i])]

\* np.isclose(x, 1.0): |x - 1| <= atol + rtol * 1, atol = 1e-8, rtol = 1e-5
IsCloseToOne(x) == Abs(x[1] - x[2]) <= (1001 * x[2]) \div 100000000

\* mutant: the weights are used as supplied
NormalizeWeightsNever(w) == w

\* weights / weights.sum() unless the sum is already close to 1
NormalizeWeights(w) ==
    LET c == Cardinality(DOMAIN w)
        total == RSum(w, c)
    IN  IF ~IsCloseToOne(total) THEN [j \in DOMAIN w |-> RDiv(w[j], total)] ELSE w

\* the orders k -> alternative of m alternatives
Orders(m) == {f \in [1 .. m -> Idx(m)] : \A a, b \in 1 .. m : a # b => f[a] # f[b]}

\* np.argsort(-scores) with the default kind: the orders that put the scores in
\* descending order; the default sort is not stable, equal scores come in any order
ArgSortDescending(scores) ==
    LET m == Cardinality(DOMAIN scores)
    IN  {f \in Orders(m) : \A a \in 1 .. (m - 1) : RLe(scores[f[a + 1]], scores[f[a]])}

\* steps 1 to 5 of topsis_rank
topsis_steps(decision_matrix, weights, criteria_types) ==
    LET w == Eval(NormalizeWeights(weights))
        norm_matrix == Eval(normalize_matrix(decision_matrix))
        w_matrix == Eval(weighted_matrix(norm_matrix, w))
        sol == Eval(ideal_solutions(w_matrix, criteria_types))
        sep == Eval(separation_measures(w_matrix, sol.ideal, sol.negative_ideal))
        c_scores == Eval(closeness_scores(sep.s_plus, sep.s_minus))
    IN  [normalized_matrix |-> norm_matrix,
         weighted_matrix |-> w_matrix,
         ideal |-> sol.ideal,
         negative_ideal |-> sol.negative_ideal,
         s_plus |-> sep.s_plus,
         s_minus |-> sep.s_minus,
         closeness |-> c_scores]

\* topsis_rank with alternative_names = None: step 6 and the returned dict,
\* given the order argsort returned
topsis_rank(steps, ranking) ==
    [normalized_matrix |-> steps.normalized_matrix,
     weighted_matrix |-> steps.weighted_matrix,
     ideal |-> steps.ideal,
     negative_ideal |-> steps.negative_ideal,
     s_plus |-> steps.s_plus,
     s_minus |-> steps.s_minus,
     closeness |-> steps.closeness,
     ranking |-> ranking,
     ranked_alternatives |-> [k \in DOMAIN ranking |-> <<"Alternative_", ranking[k]>>],
     ranked_scores |-> [k \in DOMAIN ranking |-> steps.closeness[ranking[k]]]]

-----------------------------------------------------------------------------
(* TOPSIS: the inputs drawn and the calls *)

\* number of criteria of the matrices drawn
Criteria == Idx(2)

IsSquareNumber(x) == \E r \in 0 .. x : r * r = x

RECURSIVE SumSquares(_, _)
SumSquares(col, m) == IF m = 0 THEN 0 ELSE SumSquares(col, m - 1) + col[m - 1] * col[m - 1]

\* columns of m integer entries whose Euclidean norm is an integer, so that
\* np.sqrt is exact on them
ExactColumns(m, lo) ==
    {col \in [Idx(m) -> lo .. MaxEntry] : IsSquareNumber(SumSquares(col, m))}

\* the m x 2 matrices with the given columns
MatricesOf(m, cols) ==
    {[i \in Idx(m) |-> [j \in Criteria |-> <<cs[j][i], 1>>]] : cs \in [Criteria -> cols]}

\* decision matrices of up to rows alternatives with entries 0 .. MaxEntry
DecisionMatrices(rows) == UNION {MatricesOf(m, ExactColumns(m, 0)) : m \in 1 .. rows}
\* decision matrices of up to rows alternatives with entries -1 .. MaxEntry
SignedMatrices(rows) == UNION {MatricesOf(m, ExactColumns(m, -1)) : m \in 1 .. rows}

\* weight vectors: non-negative, not all zero; (1/2, 1/2) already sums to 1
WeightValues == {Zero, R(1, 2), One}
WeightVectors == [Criteria -> WeightValues] \ {[j \in Criteria |-> Zero]}

\* criterion tags
Tags == {"benefit", "BENEFIT", "cost", "max", "benfit", ""}
TagVectors == [Criteria -> Tags]
\* the tags drawn for the full ranking
RankTagVectors == [Criteria -> {"benefit", "cost"}]

\* weighted matrices handed to ideal_solutions directly
CellValues == {R(-1, 1), R(1, 2), R(2, 1)}
WeightedMatrices(rows) == UNION {[Idx(m) -> [Criteria -> CellValues]] : m \in 1 .. rows}

\* separations handed to closeness_scores directly
SeparationValues == {Zero, R(1, 2), One, R(3, 1)}
SeparationVectors(rows) == UNION {[Idx(m) -> SeparationValues] : m \in 1 .. rows}

NoCall == <<>>

InitNormalize ==
    /\ tpc = "start"
    /\ targs \in [decision_matrix : SignedMatrices(MaxAlt)]
    /\ tres = NoCall
    /\ apc = "unused" /\ n = 0 /\ comparisons = <<>>
    /\ matrix = NoMatrix /\ principal = NoVector /\ result = NoResult
    /\ dpc = "unused" /\ dargs = <<>> /\ dres = <<>>
    /\ cache = <<>> /\ disk = <<>> /\ lpc = "unused"
    /\ plans = <<>> /\ ipc = "unused" /\ iargs = <<>> /\ ires = <<>>
    /\ ri_table = <<>> /\ memo = <<>> /\ lib = <<>>

\* tres = normalize_matrix(decision_matrix)
NormalizeMatrix ==
    /\ tpc = "start"
    /\ tres' = normalize_matrix(targs.decision_matrix)
    /\ tpc' = "normalized"
    /\ UNCHANGED targs
    /\ UNCHANGED ahpVars
    /\ UNCHANGED deaVars
    /\ UNCHANGED restVars

SpecNormalize == InitNormalize /\ [][NormalizeMatrix]_vars

InitIdeal ==
    /\ tpc = "start"
    /\ targs \in [weighted_matrix : WeightedMatrices(MaxAlt), criteria_types : TagVectors]
    /\ tres = NoCall
    /\ apc = "unused" /\ n = 0 /\ comparisons = <<>>
    /\ matrix = NoMatrix /\ principal = NoVector /\ result = NoResult
    /\ dpc = "unused" /\ dargs = <<>> /\ dres = <<>>
    /\ cache = <<>> /\ disk = <<>> /\ lpc = "unused"
    /\ plans = <<>> /\ ipc = "unused" /\ iargs = <<>> /\ ires = <<>>
    /\ ri_table = <<>> /\ memo = <<>> /\ lib = <<>>

\* tres = ideal_solutions(weighted_matrix, criteria_types)
IdealSolutions ==
    /\ tpc = "start"
    /\ tres' = ideal_solutions(targs.weighted_matrix, targs.criteria_types)
    /\ tpc' = "ideal"
    /\ UNCHANGED targs
    /\ UNCHANGED ahpVars
    /\ UNCHANGED deaVars
    /\ UNCHANGED restVars

SpecIdeal == InitIdeal /\ [][IdealSolutions]_vars

InitCloseness ==
    /\ tpc = "start"
    /\ targs \in {a \in [s_plus : SeparationVectors(MaxAlt), s_minus : SeparationVectors(MaxAlt)] :
                      DOMAIN a.s_plus = DOMAIN a.s_minus}
    /\ tres = NoCall
    /\ apc = "unused" /\ n = 0 /\ comparisons = <<>>
    /\ matrix = NoMatrix /\ principal = NoVector /\ result = NoResult
    /\ dpc = "unused" /\ dargs = <<>> /\ dres = <<>>
    /\ cache = <<>> /\ disk = <<>> /\ lpc = "unused"
    /\ plans = <<>> /\ ipc = "unused" /\ iargs = <<>> /\ ires = <<>>
    /\ ri_table = <<>> /\ memo = <<>> /\ lib = <<>>

\* tres = closeness_scores(s_plus, s_minus)
ClosenessScores ==
    /\ tpc = "start"
    /\ tres' = closeness_scores(targs.s_plus, targs.s_minus)
    /\ tpc' = "closeness"
    /\ UNCHANGED targs
    /\ UNCHANGED ahpVars
    /\ UNCHANGED deaVars
    /\ UNCHANGED restVars

SpecCloseness == InitCloseness /\ [][ClosenessScores]_vars

InitRank ==
    /\ tpc = "start"
    /\ targs \in [decision_matrix : DecisionMatrices(MaxAlt),
                  weights : WeightVectors,
                  criteria_types : RankTagVectors]
    /\ tres = NoCall
    /\ apc = "unused" /\ n = 0 /\ comparisons = <<>>
    /\ matrix = NoMatrix /\ principal = NoVector /\ result = NoResult
    /\ dpc = "unused" /\ dargs = <<>> /\ dres = <<>>
    /\ cache = <<>> /\ disk = <<>> /\ lpc = "unused"
    /\ plans = <<>> /\ ipc = "unused" /\ iargs = <<>> /\ ires = <<>>
    /\ ri_table = <<>> /\ memo = <<>> /\ lib = <<>>

\* tres = topsis_rank(decision_matrix, weights, criteria_types)
TopsisRank ==
    /\ tpc = "start"
    /\ LET steps == Eval(topsis_steps(targs.decision_matrix, targs.weights,
                                      targs.criteria_types))
       IN  \E ranking \in ArgSortDescending(steps.closeness) :
               tres' = topsis_rank(steps, ranking)
    /\ tpc' = "ranked"
    /\ UNCHANGED targs
    /\ UNCHANGED ahpVars
    /\ UNCHANGED deaVars
    /\ UNCHANGED restVars

SpecRank == InitRank /\ [][TopsisRank]_vars

-----------------------------------------------------------------------------
(* Claims about the TOPSIS engine *)

Alternatives == DOMAIN targs.decision_matrix

\* C6 as stated: the ranking is a permutation of 0..m-1, closeness does not
\* increase along it, and alternatives of equal closeness appear in ascending
\* index order.  (SpecRank)
C6_StableRanking ==
    tpc = "ranked" =>
        LET m == Rows(targs.decision_matrix)
            r == tres.ranking
        IN  /\ DOMAIN r = 1 .. m
            /\ {r[k] : k \in 1 .. m} = Idx(m)
            /\ \A a, b \in 1 .. m :
                   a < b => /\ RLe(tres.closeness[r[b]], tres.closeness[r[a]])
                            /\ tres.closeness[r[a]] = tres.closeness[r[b]] => r[a] < r[b]

AllBenefit == \A j \in Criteria : Lower(targs.criteria_types[j]) = "benefit"
\* alternative i holds the column maximum (minimum) of every criterion
AtColumnMax(i) ==
    \A j \in Criteria : \A k \in Alternatives :
        RLe(targs.decision_matrix[k][j], targs.decision_matrix[i][j])
AtColumnMin(i) ==
    \A j \in Criteria : \A k \in Alternatives :
        RLe(targs.decision_matrix[i][j], targs.decision_matrix[k][j])
\* some criterion of non-zero weight on which alternative i is above another one
AboveSomeone(i) ==
    \E j \in Criteria :
        /\ targs.weights[j] # Zero
        /\ \E k \in Alternatives :
               RLt(targs.decision_matrix[k][j], targs.decision_matrix[i][j])

\* C7 as stated: in an all-benefit matrix the alternative at the column maximum
\* of every criterion has closeness 1, the one at every column minimum has 0.
C7_DominantAsStated ==
    (tpc = "ranked" /\ AllBenefit) =>
        \A i \in Alternatives :
            /\ AtColumnMax(i) => tres.closeness[i] = One
            /\ AtColumnMin(i) => tres.closeness[i] = Zero

\* C7 amended (non-negative weights): the alternative at every column maximum
\* has closeness 1 when it is above another alternative on a criterion of
\* non-zero weight, and 0 when it is not (S+ = S- = 0: one alternative, equal
\* rows); the alternative at every column minimum has closeness 0.
C7_Dominant ==
    (tpc = "ranked" /\ AllBenefit) =>
        \A i \in Alternatives :
            /\ (AtColumnMax(i) /\ AboveSomeone(i)) => tres.closeness[i] = One
            /\ (AtColumnMax(i) /\ ~AboveSomeone(i)) => tres.closeness[i] = Zero
            /\ AtColumnMin(i) => tres.closeness[i] = Zero

\* three alternatives, the second best on both criteria, another worst on both
C7_Witness ==
    /\ tpc = "ranked"
    /\ AllBenefit
    /\ Rows(targs.decision_matrix) = 3
    /\ AtColumnMax(1) /\ AboveSomeone(1) /\ tres.closeness[1] = One
    /\ AtColumnMin(2) /\ ~AtColumnMax(2) /\ tres.closeness[2] = Zero
    /\ tres.closeness[0] # Zero /\ tres.closeness[0] # One

\* C8: closeness_scores gives each alternative a value in [0, 1]: S-/(S+ + S-)
\* when S+ + S- > 0, and 0 (denominator 1, no division by zero) when it is 0.
\* (SpecCloseness)
C8_ClosenessRange ==
    tpc = "closeness" =>
        \A i \in DOMAIN targs.s_plus :
            LET total == RAdd(targs.s_plus[i], targs.s_minus[i])
            IN  /\ IsFinite(tres[i])
                /\ RLe(Zero, tres[i]) /\ RLe(tres[i], One)
                /\ RLt(Zero, total) => RMul(tres[i], total) = targs.s_minus[i]
                /\ total = Zero => tres[i] = Zero

\* one alternative with S+ = S- = 0 next to one strictly between the two ideals
C8_Witness ==
    /\ tpc = "closeness"
    /\ \E i, k \in DOMAIN targs.s_plus :
           /\ targs.s_plus[i] = Zero /\ targs.s_minus[i] = Zero /\ tres[i] = Zero
           /\ targs.s_plus[k] = One /\ targs.s_minus[k] = R(3, 1) /\ tres[k] = R(3, 4)

\* the tags that read 'benefit' once lower-cased
BenefitTags == {"benefit", "Benefit", "BENEFIT"}

\* x is the largest (smallest) value of column j of the weighted matrix
IsColumnMax(x, j) ==
    /\ \E i \in DOMAIN targs.weighted_matrix : targs.weighted_matrix[i][j] = x
    /\ \A i \in DOMAIN targs.weighted_matrix : RLe(targs.weighted_matrix[i][j], x)
IsColumnMin(x, j) ==
    /\ \E i \in DOMAIN targs.weighted_matrix : targs.weighted_matrix[i][j] = x
    /\ \A i \in DOMAIN targs.weighted_matrix : RLe(x, targs.weighted_matrix[i][j])

\* C9: for a 'benefit' tag (in any letter case) the ideal is the column maximum
\* and the negative-ideal the column minimum; for 'cost' they are swapped.
\* (SpecIdeal)
C9_IdealByTag ==
    tpc = "ideal" =>
        \A j \in Criteria :
            /\ targs.criteria_types[j] \in BenefitTags =>
                   /\ IsColumnMax(tres.ideal[j], j)
                   /\ IsColumnMin(tres.negative_ideal[j], j)
            /\ targs.criteria_types[j] = "cost" =>
                   /\ IsColumnMin(tres.ideal[j], j)
                   /\ IsColumnMax(tres.negative_ideal[j], j)

\* an upper-case benefit column next to a cost column, neither column constant
C9_Witness ==
    /\ tpc = "ideal"
    /\ targs.criteria_types[0] = "BENEFIT"
    /\ targs.criteria_types[1] = "cost"
    /\ tres.ideal[0] = R(2, 1) /\ tres.negative_ideal[0] = R(-1, 1)
    /\ tres.ideal[1] = R(-1, 1) /\ tres.negative_ideal[1] = R(2, 1)

\* C10: normalize_matrix divides each column by its Euclidean norm, so a column
\* with a non-zero entry gets unit length; a column of zeros is divided by 1 and
\* stays zero; no entry of the output is NaN or infinite.  (SpecNormalize)
C10_UnitColumns ==
    tpc = "normalized" =>
        LET d == targs.decision_matrix
            m == Rows(d)
        IN  \A j \in Criteria :
                LET sumsq == RSum([i \in Idx(m) |-> RSquare(d[i][j])], m)
                IN  /\ \A i \in Idx(m) :
                           /\ IsFinite(tres[i][j])
                           /\ RLt(tres[i][j], Zero) <=> RLt(d[i][j], Zero)
                           /\ sumsq # Zero =>
                                  RMul(RSquare(tres[i][j]), sumsq) = RSquare(d[i][j])
                           /\ sumsq = Zero => tres[i][j] = Zero
                    /\ sumsq # Zero =>
                           RSum([i \in Idx(m) |-> RSquare(tres[i][j])], m) = One

\* a column of zeros next to a column with entries of both signs
C10_Witness ==
    /\ tpc = "normalized"
    /\ Rows(targs.decision_matrix) = 3
    /\ \A i \in Idx(3) : targs.decision_matrix[i][0] = Zero /\ tres[i][0] = Zero
    /\ targs.decision_matrix[0][1] = R(-1, 1) /\ tres[0][1] = R(-1, 3)
    /\ targs.decision_matrix[1][1] = R(2, 1) /\ tres[1][1] = R(2, 3)

-----------------------------------------------------------------------------
(* TOPSIS: two calls on related arguments *)

\* column c of the decision matrix multiplied by k
ScaleColumn(d, c, k) ==
    [i \in DOMAIN d |-> [j \in DOMAIN d[i] |-> IF j = c THEN RMul(d[i][j], k) ELSE d[i][j]]]

\* positive factors: two above 1 and one below 1 that keeps the norms on the
\* grid of Sqrt
ScaleFactors == {R(2, 1), R(3, 1), R(SqrtScale \div 2, SqrtScale)}

InitScale ==
    /\ tpc = "start"
    /\ targs \in [decision_matrix : SignedMatrices(MaxAlt), column : Criteria, k : ScaleFactors]
    /\ tres = NoCall
    /\ apc = "unused" /\ n = 0 /\ comparisons = <<>>
    /\ matrix = NoMatrix /\ principal = NoVector /\ result = NoResult
    /\ dpc = "unused" /\ dargs = <<>> /\ dres = <<>>
    /\ cache = <<>> /\ disk = <<>> /\ lpc = "unused"
    /\ plans = <<>> /\ ipc = "unused" /\ iargs = <<>> /\ ires = <<>>
    /\ ri_table = <<>> /\ memo = <<>> /\ lib = <<>>

\* normalize_matrix(D) and normalize_matrix(D with one column times k)
NormalizeScaled ==
    /\ tpc = "start"
    /\ tres' = [plain |-> normalize_matrix(targs.decision_matrix),
                scaled |-> normalize_matrix(ScaleColumn(targs.decision_matrix,
                                                        targs.column, targs.k))]
    /\ tpc' = "rescaled"
    /\ UNCHANGED targs
    /\ UNCHANGED ahpVars
    /\ UNCHANGED deaVars
    /\ UNCHANGED restVars

SpecScale == InitScale /\ [][NormalizeScaled]_vars

\* C11: normalizing the matrix with one column multiplied by k > 0 gives the
\* same matrix as normalizing the matrix itself.  (SpecScale)
C11_ScaleInvariant ==
    tpc = "rescaled" => tres.scaled = tres.plain

\* a column with entries of both signs, scaled by a factor below 1
C11_Witness ==
    /\ tpc = "rescaled"
    /\ Rows(targs.decision_matrix) = 3
    /\ targs.column = 1
    /\ RLt(targs.k, One)
    /\ targs.decision_matrix[0][1] = R(-1, 1)
    /\ targs.decision_matrix[1][1] = R(2, 1)
    /\ tres.scaled[0][1] = R(-1, 3) /\ tres.scaled[1][1] = R(2, 3)

\* the weights multiplied by k
ScaleWeights(w, k) == [j \in DOMAIN w |-> RMul(w[j], k)]

WeightPair(a, b) == [j \in Criteria |-> IF j = 0 THEN a ELSE b]

\* weight vectors of positive sum, summing to 1 or far from 1, and factors k > 0
RescaleWeightVectors ==
    {WeightPair(R(1, 2), R(1, 2)), WeightPair(One, One), WeightPair(Zero, R(2, 1)),
     WeightPair(R(1, 4), R(3, 4))}
WeightFactors == {R(2, 1), R(1, 2)}

\* weights and factors where a sum is within the tolerance of np.isclose of 1
\* without being 1: the sum of w, or the sum of k * w
NearOneCases ==
    {[weights |-> WeightPair(R(1, 2), R(100001, 200000)), k |-> R(2, 1)],
     [weights |-> WeightPair(R(1, 2), R(100001, 200000)), k |-> R(1, 2)],
     [weights |-> WeightPair(R(1, 2), R(1, 2)), k |-> R(200001, 200000)]}

\* the near-1 cases are drawn with one alternative, where the separations are 0
\* and the integers of the model stay within 32 bits
InitWeights ==
    /\ tpc = "start"
    /\ targs \in [decision_matrix : DecisionMatrices(MaxAlt),
                  weights : RescaleWeightVectors,
                  criteria_types : RankTagVectors,
                  k : WeightFactors]
             \cup {[decision_matrix |-> d, weights |-> c.weights,
                    criteria_types |-> t, k |-> c.k] :
                       d \in DecisionMatrices(1), t \in RankTagVectors, c \in NearOneCases}
    /\ tres = NoCall
    /\ apc = "unused" /\ n = 0 /\ comparisons = <<>>
    /\ matrix = NoMatrix /\ principal = NoVector /\ result = NoResult
    /\ dpc = "unused" /\ dargs = <<>> /\ dres = <<>>
    /\ cache = <<>> /\ disk = <<>> /\ lpc = "unused"
    /\ plans = <<>> /\ ipc = "unused" /\ iargs = <<>> /\ ires = <<>>
    /\ ri_table = <<>> /\ memo = <<>> /\ lib = <<>>

\* topsis_rank(D, w, types) and topsis_rank(D, k * w, types); argsort is a
\* function of its argument: on equal closeness arrays it returns equal orders
TopsisRankRescaled ==
    /\ tpc = "start"
    /\ LET first == Eval(topsis_steps(targs.decision_matrix, targs.weights,
                                      targs.criteria_types))
           second == Eval(topsis_steps(targs.decision_matrix,
                                       ScaleWeights(targs.weights, targs.k),
                                       targs.criteria_types))
       IN  \E r1 \in ArgSortDescending(first.closeness) :
               \E r2 \in ArgSortDescending(second.closeness) :
                   /\ first.closeness = second.closeness => r1 = r2
                   /\ tres' = [first |-> topsis_rank(first, r1),
                               second |-> topsis_rank(second, r2)]
    /\ tpc' = "reweighted"
    /\ UNCHANGED targs
    /\ UNCHANGED ahpVars
    /\ UNCHANGED deaVars
    /\ UNCHANGED restVars

SpecWeights == InitWeights /\ [][TopsisRankRescaled]_vars

\* the sum of the weights topsis_rank applies
AppliedSum(w) == RSum(NormalizeWeights(w), Cardinality(DOMAIN w))

\* C12 as stated: the weights applied sum to 1, and topsis_rank(D, w) and
\* topsis_rank(D, k * w) return the same weighted matrix, closeness scores and
\* ranking.
C12_RescaledAsStated ==
    tpc = "reweighted" =>
        /\ AppliedSum(targs.weights) = One
        /\ tres.first.weighted_matrix = tres.second.weighted_matrix
        /\ tres.first.closeness = tres.second.closeness
        /\ tres.first.ranking = tres.second.ranking

\* C12 amended: the weights applied sum to 1 within the tolerance of np.isclose
\* (supplied weights whose sum is that close to 1 are used as supplied); the two
\* weighted matrices are proportional, by the ratio of the two applied sums;
\* when the applied sums are equal the weighted matrix, the closeness scores and
\* the ranking are the same.  (SpecWeights)
C12_Rescaled ==
    tpc = "reweighted" =>
        LET s1 == AppliedSum(targs.weights)
            s2 == AppliedSum(ScaleWeights(targs.weights, targs.k))
        IN  /\ IsCloseToOne(s1) /\ IsCloseToOne(s2)
            /\ \A i \in Alternatives : \A j \in Criteria :
                   RMul(tres.first.weighted_matrix[i][j], s2)
                       = RMul(tres.second.weighted_matrix[i][j], s1)
            /\ s1 = s2 =>
                   /\ tres.first.weighted_matrix = tres.second.weighted_matrix
                   /\ tres.first.closeness = tres.second.closeness
                   /\ tres.first.ranking = tres.second.ranking

\* weights (1, 1) and (2, 2): both divided by their sum, three alternatives
\* ranked the same way
C12_Witness ==
    /\ tpc = "reweighted"
    /\ Rows(targs.decision_matrix) = 3
    /\ targs.weights[0] = One /\ targs.weights[1] = One
    /\ targs.k = R(2, 1)
    /\ tres.first.weighted_matrix = tres.second.weighted_matrix
    /\ tres.first.ranking = tres.second.ranking
    /\ tres.first.closeness[0] # tres.first.closeness[1]
    /\ \E i \in Alternatives : tres.first.weighted_matrix[i][0] # targs.decision_matrix[i][0]

-----------------------------------------------------------------------------
(* DEA: scipy.optimize.linprog by its contract *)

\* a value that may be None is a sequence of at most one value
None == <<>>
Some(v) == <<v>>
IsNone(o) == o = None
Get(o) == o[1]

\* the elements of a set of integers in ascending order
RECURSIVE SortedSeq(_)
SortedSeq(S) ==
    IF S = {} THEN <<>>
    ELSE LET least == CHOOSE x \in S : \A y \in S : x <= y
         IN  <<least>> \o SortedSeq(S \ {least})

\* M without its first row and its j-th column (M has k rows and columns)
Minor(M, j, k) ==
    [i \in 1 .. (k - 1) |-> [c \in 1 .. (k - 1) |-> M[i + 1][IF c < j THEN c ELSE c + 1]]]

\* determinant of a k x k matrix of rationals, expanded along the first row
RECURSIVE Det(_, _)
RECURSIVE DetTerms(_, _, _)
DetTerms(M, k, j) ==
    IF j = 0 THEN Zero
    ELSE LET term == IF M[1][j] = Zero THEN Zero
                     ELSE RMul(M[1][j], Det(Minor(M, j, k), k - 1))
         IN  IF j % 2 = 1
             THEN RAdd(DetTerms(M, k, j - 1), term)
             ELSE RSub(DetTerms(M, k, j - 1), term)
Det(M, k) == IF k = 0 THEN One ELSE IF k = 1 THEN M[1][1] ELSE DetTerms(M, k, k)

\* row . x over the variables 0 .. nv-1
RECURSIVE Dot(_, _, _)
Dot(row, x, nv) ==
    IF nv = 0 THEN Zero
    ELSE RAdd(Dot(row, x, nv - 1), RMul(row[nv - 1], x[nv - 1]))

\* a linear program is [c, A, b, lo, hi]: minimise c . x subject to A x <= b and
\* lo <= x <= hi, over the variables 0 .. nv-1; the upper bound None is PosInf

\* the point where the rows T of A_ub hold with equality, the variables B are
\* free and every other variable sits at a bound (its upper bound when in H,
\* else its lower bound); NaN entries when the rows do not determine it
BasicPoint(lp, T, B, H) ==
    LET nv == Cardinality(DOMAIN lp.c)
        k == Cardinality(T)
        rows == SortedSeq(T)
        cols == SortedSeq(B)
        atBound == [j \in DOMAIN lp.c |->
                       IF j \in B THEN Zero ELSE IF j \in H THEN lp.hi[j] ELSE lp.lo[j]]
        M == Eval([i \in 1 .. k |-> [c \in 1 .. k |-> lp.A[rows[i]][cols[c]]]])
        rhs == Eval([i \in 1 .. k |-> RSub(lp.b[rows[i]], Dot(lp.A[rows[i]], atBound, nv))])
        det == Det(M, k)
        solved(c) == RDiv(Det([i \in 1 .. k |-> [cc \in 1 .. k |->
                                   IF cc = c THEN rhs[i] ELSE M[i][cc]]], k), det)
    IN  IF det = Zero THEN [j \in DOMAIN lp.c |-> NaN]
        ELSE [j \in DOMAIN lp.c |->
                 IF j \in B
                 THEN solved(CHOOSE c \in 1 .. k : cols[c] = j)
                 ELSE atBound[j]]

\* x satisfies A_ub x <= b_ub and the bounds
Feasible(lp, x) ==
    LET nv == Cardinality(DOMAIN lp.c)
    IN  /\ \A j \in DOMAIN lp.c :
               /\ RLe(lp.lo[j], x[j])
               /\ RLe(x[j], lp.hi[j])
        /\ \A t \in DOMAIN lp.A : RLe(Dot(lp.A[t], x, nv), lp.b[t])

\* the vertices of the feasible region
Vertices(lp) ==
    LET V == DOMAIN lp.c
        bounded == {j \in V : IsFinite(lp.hi[j])}
        points == UNION {UNION {{BasicPoint(lp, T, B, H) : H \in SUBSET (bounded \ B)} :
                                   B \in {X \in SUBSET V : Cardinality(X) = Cardinality(T)}} :
                            T \in SUBSET DOMAIN lp.A}
    IN  {x \in points : Feasible(lp, x)}

\* the objective falls without limit along variable 0: its coefficient in c is
\* negative, it has no upper bound and no row of A_ub limits it.  The data
\* drawn has positive inputs, which bound every lambda: no other ray exists.
Unbounded(lp) ==
    /\ RLt(lp.c[0], Zero)
    /\ lp.hi[0] = PosInf
    /\ \A t \in DOMAIN lp.A : RLe(lp.A[t][0], Zero)

\* linprog(c, A_ub, b_ub, bounds, method='highs'): the results it may return.
\* A solvable problem is answered with one of its optimal vertices, unless the
\* solver gives up (iteration or time limit, numerical difficulties).
linprog(lp, gives_up) ==
    LET nv == Cardinality(DOMAIN lp.c)
        vs == Vertices(lp)
        best == {x \in vs : \A y \in vs : RLe(Dot(lp.c, x, nv), Dot(lp.c, y, nv))}
    IN  IF gives_up
        THEN {[success |-> FALSE, x |-> None, message |-> "limit reached"]}
        ELSE IF vs = {}
        THEN {[success |-> FALSE, x |-> None, message |-> "infeasible"]}
        ELSE IF Unbounded(lp)
        THEN {[success |-> FALSE, x |-> None, message |-> "unbounded"]}
        ELSE {[success |-> TRUE, x |-> x, message |-> "optimal"] : x \in best}

-----------------------------------------------------------------------------
(* DEA: the functions *)

\* the linear program of the output orientation for DMU k:
\* variables [phi, lambda_0, ..., lambda_{n-1}], minimise -phi
OutputProgram(inputs, outputs, k) ==
    LET n_dmus == Rows(inputs)
        n_inputs == Cols(inputs)
        n_outputs == Cols(outputs)
        x_k == inputs[k]
        y_k == outputs[k]
        V == 0 .. n_dmus
    IN  [c |-> [j \in V |-> IF j = 0 THEN R(-1, 1) ELSE Zero],
         A |-> [t \in 1 .. (n_inputs + n_outputs) |->
                   IF t <= n_inputs
                   THEN [j \in V |-> IF j = 0 THEN Zero ELSE inputs[j - 1][t - 1]]
                   ELSE [j \in V |-> IF j = 0 THEN y_k[t - n_inputs - 1]
                                     ELSE RNeg(outputs[j - 1][t - n_inputs - 1])]],
         b |-> [t \in 1 .. (n_inputs + n_outputs) |->
                   IF t <= n_inputs THEN x_k[t - 1] ELSE Zero],
         lo |-> [j \in V |-> IF j = 0 THEN One ELSE Zero],
         hi |-> [j \in V |-> PosInf]]

\* the input-oriented program with b_ub of the output rows left at zero, as
\* in the output orientation
InputProgramZeroRhs(inputs, outputs, k) ==
    LET n_dmus == Rows(inputs)
        n_inputs == Cols(inputs)
        n_outputs == Cols(outputs)
        x_k == inputs[k]
        V == 0 .. n_dmus
    IN  [c |-> [j \in V |-> IF j = 0 THEN One ELSE Zero],
         A |-> [t \in 1 .. (n_inputs + n_outputs) |->
                   IF t <= n_inputs
                   THEN [j \in V |-> IF j = 0 THEN RNeg(x_k[t - 1]) ELSE inputs[j - 1][t - 1]]
                   ELSE [j \in V |-> IF j = 0 THEN Zero
                                     ELSE RNeg(outputs[j - 1][t - n_inputs - 1])]],
         b |-> [t \in 1 .. (n_inputs + n_outputs) |-> Zero],
         lo |-> [j \in V |-> Zero],
         hi |-> [j \in V |-> IF j = 0 THEN One ELSE PosInf]]

\* the linear program of the input orientation for DMU k:
\* variables [theta, lambda_0, ..., lambda_{n-1}], minimise theta
InputProgram(inputs, outputs, k) ==
    LET n_dmus == Rows(inputs)
        n_inputs == Cols(inputs)
        n_outputs == Cols(outputs)
        x_k == inputs[k]
        y_k == outputs[k]
        V == 0 .. n_dmus
    IN  [c |-> [j \in V |-> IF j = 0 THEN One ELSE Zero],
         A |-> [t \in 1 .. (n_inputs + n_outputs) |->
                   IF t <= n_inputs
                   THEN [j \in V |-> IF j = 0 THEN RNeg(x_k[t - 1]) ELSE inputs[j - 1][t - 1]]
                   ELSE [j \in V |-> IF j = 0 THEN Zero
                                     ELSE RNeg(outputs[j - 1][t - n_inputs - 1])]],
         b |-> [t \in 1 .. (n_inputs + n_outputs) |->
                   IF t <= n_inputs THEN Zero ELSE RNeg(y_k[t - n_inputs - 1])],
         lo |-> [j \in V |-> Zero],
         hi |-> [j \in V |-> IF j = 0 THEN One ELSE PosInf]]

\* np.isclose(e, 1.0, atol=1e-6) with the default rtol=1e-5:
\* |e - 1| <= 1e-6 + 1e-5 * |1.0|
IsCloseAtol(e) ==
    /\ IsFinite(e)
    /\ Abs(e[1] - e[2]) * 1000000 <= 11 * e[2]

\* (data.T @ lambdas)[i]: lambdas[0] * data[0][i] + ... + lambdas[n-1] * data[n-1][i]
Combined(data, lambdas, i) ==
    RSum([j \in DOMAIN data |-> RMul(lambdas[j], data[j][i])], Rows(data))

\* the key of the raw LP solution in the returned dict
Radial(orientation, value) ==
    IF orientation = "output" THEN [phi |-> value] ELSE [theta |-> value]

\* the dict of a failed solve; the status f'failed: {result.message}' is kept
\* as its two parts
\* a failed program reported with efficiency 0 in place of None
FailedResultZero(orientation, message) ==
    Radial(orientation, None) @@
    [efficiency |-> Some(Zero), lambdas |-> None, slack_inputs |-> None,
     slack_outputs |-> None, is_efficient |-> None, peers |-> None,
     status |-> <<"failed: ", message>>]

FailedResult(orientation, message) ==
    Radial(orientation, None) @@
    [efficiency |-> None, lambdas |-> None, slack_inputs |-> None,
     slack_outputs |-> None, is_efficient |-> None, peers |-> None,
     status |-> <<"failed: ", message>>]

\* dea_efficiency: the results it may return; peers is the mask lambdas > 1e-6
\* of the indices np.where lists
\* the radial measure of the program read as it stands, never inverted
EfficiencyOfRaw(orientation, first) == first

\* efficiency = 1.0 / phi (output orientation), efficiency = theta (input)
EfficiencyOf(orientation, first) ==
    IF orientation = "output" THEN RDiv(One, first) ELSE first

dea_efficiency(inputs, outputs, dmu_index, orientation, gives_up) ==
    LET x_k == inputs[dmu_index]
        y_k == outputs[dmu_index]
        solved(res) ==
            LET first == res.x[0]
                lambdas == [j \in DOMAIN inputs |-> res.x[j + 1]]
                efficiency == EfficiencyOf(orientation, first)
            IN  Radial(orientation, Some(first)) @@
                [efficiency |-> Some(efficiency),
                 lambdas |-> Some(lambdas),
                 slack_inputs |-> Some([i \in DOMAIN x_k |->
                     IF orientation = "output"
                     THEN RSub(x_k[i], Combined(inputs, lambdas, i))
                     ELSE RSub(RMul(first, x_k[i]), Combined(inputs, lambdas, i))]),
                 slack_outputs |-> Some([r \in DOMAIN y_k |->
                     IF orientation = "output"
                     THEN RSub(RMul(first, y_k[r]), Combined(outputs, lambdas, r))
                     ELSE RSub(Combined(outputs, lambdas, r), y_k[r])]),
                 is_efficient |-> Some(IsCloseAtol(efficiency)),
                 peers |-> Some([j \in DOMAIN inputs |-> RLt(R(1, 1000000), lambdas[j])]),
                 status |-> <<"optimal">>]
        program == IF orientation = "output"
                   THEN OutputProgram(inputs, outputs, dmu_index)
                   ELSE InputProgram(inputs, outputs, dmu_index)
    IN  {IF res.success THEN solved(res) ELSE FailedResult(orientation, res.message) :
            res \in linprog(program, gives_up)}

-----------------------------------------------------------------------------
(* DEA: one call of dea_efficiency *)

\* most DMUs of a data set
MaxDmu == 3
\* largest entry of a DEA data set
MaxDatum == 2

\* tables of rows x cols entries drawn from vals
Tables(rows, cols, vals) == [Idx(rows) -> [Idx(cols) -> vals]]

\* entries of well-formed data: strictly positive
Positive == {R(v, 1) : v \in 1 .. MaxDatum}

\* the tables whose first row is the unit row
UnitFirst(rows, cols, vals) ==
    {[j \in Idx(rows) |-> IF j = 0 THEN [c \in Idx(cols) |-> One] ELSE t[j - 1]] :
        t \in Tables(rows - 1, cols, vals)}

\* well-formed data sets of nd DMUs: one input and one output, two inputs and
\* one output, one input and two outputs; the largest sets with two inputs or
\* two outputs have the unit DMU (every entry 1) as their first
ValidData(nd) ==
    UNION {IF nd < MaxDmu \/ sh = <<1, 1>>
           THEN [inputs : Tables(nd, sh[1], Positive), outputs : Tables(nd, sh[2], Positive)]
           ELSE [inputs : UnitFirst(nd, sh[1], Positive),
                 outputs : UnitFirst(nd, sh[2], Positive)] :
              sh \in {<<1, 1>>, <<2, 1>>, <<1, 2>>}}

\* malformed data: an output entry that is zero or negative (inputs stay
\* positive), or fewer or more rows of outputs than of inputs
NonPositiveData(nd) ==
    {d \in [inputs : Tables(nd, 1, Positive),
            outputs : Tables(nd, 1, {R(-1, 1), Zero, One})] :
        \E j \in Idx(nd) : RLe(d.outputs[j][0], Zero)}
MismatchedData(nd) ==
    UNION {[inputs : Tables(nd, 1, {One}), outputs : Tables(no, 1, Positive)] :
              no \in (2 .. (MaxDmu + 1)) \ {nd}}

IsWellFormed(inputs, outputs) ==
    /\ Rows(inputs) = Rows(outputs)
    /\ \A j \in DOMAIN inputs : \A i \in DOMAIN inputs[j] : RLt(Zero, inputs[j][i])
    /\ \A j \in DOMAIN outputs : \A r \in DOMAIN outputs[j] : RLt(Zero, outputs[j][r])

\* the call ends in an exception: with outputs of another row count (two rows
\* or more) outputs[dmu_index] is out of range, or the column outputs[:, r]
\* does not fit the row of A_ub_output
Raised == [status |-> <<"raised">>]
DeaCall(inputs, outputs, dmu_index, orientation, gives_up) ==
    IF Rows(outputs) # Rows(inputs)
    THEN {Raised}
    ELSE dea_efficiency(inputs, outputs, dmu_index, orientation, gives_up)

Orientations == {"output", "input"}

InitDea ==
    /\ dpc = "start"
    /\ dargs \in UNION {[inputs : {d.inputs}, outputs : {d.outputs},
                          dmu_index : Idx(Rows(d.inputs)),
                          orientation : Orientations,
                          gives_up : BOOLEAN] :
                            d \in UNION {ValidData(nd) \cup NonPositiveData(nd)
                                            \cup MismatchedData(nd) : nd \in 1 .. MaxDmu}}
    /\ dres = None
    /\ apc = "unused" /\ n = 0 /\ comparisons = <<>>
    /\ matrix = NoMatrix /\ principal = NoVector /\ result = NoResult
    /\ tpc = "unused" /\ targs = <<>> /\ tres = <<>>
    /\ cache = <<>> /\ disk = <<>> /\ lpc = "unused"
    /\ plans = <<>> /\ ipc = "unused" /\ iargs = <<>> /\ ires = <<>>
    /\ ri_table = <<>> /\ memo = <<>> /\ lib = <<>>

\* dres = dea_efficiency(inputs, outputs, dmu_index, orientation)
DeaEfficiency ==
    /\ dpc = "start"
    /\ dres' \in DeaCall(dargs.inputs, dargs.outputs, dargs.dmu_index,
                          dargs.orientation, dargs.gives_up)
    /\ dpc' = "returned"
    /\ UNCHANGED dargs
    /\ UNCHANGED ahpVars
    /\ UNCHANGED topsisVars
    /\ UNCHANGED restVars

SpecDea == InitDea /\ [][DeaEfficiency]_vars

\* the call returned a solved program on well-formed data
SolvedWellFormed ==
    /\ dpc = "returned"
    /\ IsWellFormed(dargs.inputs, dargs.outputs)
    /\ dres.status = <<"optimal">>

\* C14: for strictly positive data of matching shapes, a solved program gives
\* an efficiency in (0, 1]: in output orientation it is 1/phi with phi >= 1,
\* in input orientation it is theta with theta in (0, 1].
C14_EfficiencyRange ==
    SolvedWellFormed =>
        /\ RLt(Zero, Get(dres.efficiency))
        /\ RLe(Get(dres.efficiency), One)
        /\ IF dargs.orientation = "output"
           THEN /\ RLe(One, Get(dres.phi))
                /\ Get(dres.efficiency) = RDiv(One, Get(dres.phi))
           ELSE /\ RLt(Zero, Get(dres.theta))
                /\ RLe(Get(dres.theta), One)
                /\ Get(dres.efficiency) = Get(dres.theta)

C14_Witness ==
    /\ SolvedWellFormed
    /\ dargs.orientation = "output"
    /\ RLt(One, Get(dres.phi))
    /\ RLt(Get(dres.efficiency), One)

\* the fields of a result that are None on failure
ResultFields(r, orientation) ==
    <<r.efficiency, IF orientation = "output" THEN r.phi ELSE r.theta, r.lambdas,
      r.slack_inputs, r.slack_outputs, r.is_efficient, r.peers>>

\* C18: when the solver reports failure dea_efficiency returns (it does not
\* raise) a result whose efficiency, phi/theta, lambdas, slack_inputs,
\* slack_outputs, is_efficient and peers are all None and whose status starts
\* with 'failed:'; when the solver succeeds the status is 'optimal' and none
\* of those fields is None.
C18_FailureResult ==
    (dpc = "returned" /\ dres # Raised) =>
        /\ dargs.gives_up => dres.status[1] = "failed: "
        /\ IF dres.status[1] = "failed: "
           THEN /\ Len(dres.status) = 2
                /\ \A f \in 1 .. 7 : IsNone(ResultFields(dres, dargs.orientation)[f])
           ELSE /\ dres.status = <<"optimal">>
                /\ \A f \in 1 .. 7 : ~IsNone(ResultFields(dres, dargs.orientation)[f])

C18_Witness ==
    /\ dpc = "returned"
    /\ dargs.gives_up
    /\ dres.status = <<"failed: ", "limit reached">>
    /\ IsNone(dres.efficiency)

\* C20: a call of dea_efficiency whose inputs and outputs differ in their row
\* counts, or hold a zero or negative entry, ends in an error outcome and
\* never in a normal result (status 'optimal').
C20_MalformedRejected ==
    (dpc = "returned" /\ ~IsWellFormed(dargs.inputs, dargs.outputs)) =>
        dres.status # <<"optimal">>

----------------------------------------------------------------------------
\* DEA: dea_efficiency_all

\* one element of each set of a family
Choices(family) ==
    {f \in [DOMAIN family -> UNION {family[i] : i \in DOMAIN family}] :
        \A i \in DOMAIN family : f[i] \in family[i]}

\* every DMU entered with 0, solved or not
EfficiencyZero(res) == Zero

\* a DMU without a solution entered with 1
EfficiencyOrOne(res) == IF IsNone(res.efficiency) THEN One ELSE Get(res.efficiency)

\* result['efficiency'] if result['efficiency'] is not None else 0
EfficiencyOrZero(res) == IF IsNone(res.efficiency) THEN Zero ELSE Get(res.efficiency)

\* the entry of DMU i with the targets scaled by the efficiency score in place
\* of the radial measure
ImprovementTargetByEfficiency(inputs, outputs, orientation, res, i) ==
    LET e == Get(res.efficiency)
    IN  IF orientation = "output"
        THEN [current_outputs |-> outputs[i],
              target_outputs |-> [r \in DOMAIN outputs[i] |-> RMul(outputs[i][r], e)],
              improvement_needed |->
                  [r \in DOMAIN outputs[i] |-> RSub(RMul(outputs[i][r], e), outputs[i][r])],
              improvement_percent |-> RMul(RSub(e, One), R(100, 1))]
        ELSE [current_inputs |-> inputs[i],
              target_inputs |-> [c \in DOMAIN inputs[i] |-> RMul(inputs[i][c], e)],
              reduction_needed |->
                  [c \in DOMAIN inputs[i] |-> RSub(inputs[i][c], RMul(inputs[i][c], e))],
              reduction_percent |-> RMul(RSub(One, e), R(100, 1))]

\* the entry of improvement_targets of DMU i
ImprovementTarget(inputs, outputs, orientation, res, i) ==
    IF orientation = "output"
    THEN LET phi == Get(res.phi)
             target_outputs == [r \in DOMAIN outputs[i] |-> RMul(outputs[i][r], phi)]
         IN  [current_outputs |-> outputs[i],
              target_outputs |-> target_outputs,
              improvement_needed |->
                  [r \in DOMAIN outputs[i] |-> RSub(target_outputs[r], outputs[i][r])],
              improvement_percent |-> RMul(RSub(phi, One), R(100, 1))]
    ELSE LET theta == Get(res.theta)
             target_inputs == [c \in DOMAIN inputs[i] |-> RMul(inputs[i][c], theta)]
         IN  [current_inputs |-> inputs[i],
              target_inputs |-> target_inputs,
              reduction_needed |->
                  [c \in DOMAIN inputs[i] |-> RSub(inputs[i][c], target_inputs[c])],
              reduction_percent |-> RMul(RSub(One, theta), R(100, 1))]

\* an entry of improvement_targets for every solved DMU, efficient or not
HasTargetSolved(res) == ~IsNone(res.efficiency)

\* the DMUs that get an entry of improvement_targets:
\* not results[i]['is_efficient'] and results[i]['efficiency'] is not None
HasTarget(res) ==
    /\ IsNone(res.is_efficient) \/ ~Get(res.is_efficient)
    /\ ~IsNone(res.efficiency)

\* the returned dict, for one choice of the solver's answers; gives_up is the
\* set of DMUs whose program the solver abandons. frontier_dmus is the set
\* of the indices np.where lists in increasing order, improvement_targets is
\* keyed by the index i of the default name DMU_i.
dea_efficiency_all(inputs, outputs, orientation, gives_up) ==
    LET n_dmus == Rows(inputs)
        answers == Eval([i \in Idx(n_dmus) |->
                       dea_efficiency(inputs, outputs, i, orientation, i \in gives_up)])
        summary(results) ==
            LET efficiencies == Eval([i \in Idx(n_dmus) |-> EfficiencyOrZero(results[i])])
            IN  {[efficiencies |-> efficiencies,
                  results |-> results,
                  frontier_dmus |-> {i \in Idx(n_dmus) : IsCloseAtol(efficiencies[i])},
                  ranking |-> ranking,
                  improvement_targets |->
                      [i \in {j \in Idx(n_dmus) : HasTarget(results[j])} |->
                          ImprovementTarget(inputs, outputs, orientation, results[i], i)]] :
                    ranking \in ArgSortDescending(efficiencies)}
    IN  UNION {summary(results) : results \in Choices(answers)}

\* data whose second DMU produces a little less than the first
NearOne == R(99999, 100000)
NearFrontierData ==
    [inputs : Tables(2, 1, {One}), outputs : Tables(2, 1, {One, NearOne})]

\* the sweeps: every well-formed data set with each program solved; the data
\* sets of one input and one output, the near-frontier ones and the ones
\* with a zero or negative output, with any set of abandoned programs
SweepArgs ==
    UNION {[inputs : {d.inputs}, outputs : {d.outputs}, orientation : Orientations,
            gives_up : {{}}] :
              d \in UNION {ValidData(nd) : nd \in 1 .. MaxDmu}}
    \cup
    UNION {[inputs : {d.inputs}, outputs : {d.outputs}, orientation : Orientations,
            gives_up : SUBSET Idx(Rows(d.inputs))] :
              d \in UNION {[inputs : Tables(nd, 1, Positive),
                            outputs : Tables(nd, 1, Positive)] : nd \in 1 .. MaxDmu}
                    \cup NearFrontierData
                    \cup NonPositiveData(1) \cup NonPositiveData(2)}

InitDeaAll ==
    /\ dpc = "start"
    /\ dargs \in SweepArgs
    /\ dres = None
    /\ apc = "unused" /\ n = 0 /\ comparisons = <<>>
    /\ matrix = NoMatrix /\ principal = NoVector /\ result = NoResult
    /\ tpc = "unused" /\ targs = <<>> /\ tres = <<>>
    /\ cache = <<>> /\ disk = <<>> /\ lpc = "unused"
    /\ plans = <<>> /\ ipc = "unused" /\ iargs = <<>> /\ ires = <<>>
    /\ ri_table = <<>> /\ memo = <<>> /\ lib = <<>>

\* dres.sweep = dea_efficiency_all(inputs, outputs, orientation)
DeaEfficiencyAll ==
    /\ dpc = "start"
    /\ \E sweep \in dea_efficiency_all(dargs.inputs, dargs.outputs,
                                        dargs.orientation, dargs.gives_up) :
            dres' = [sweep |-> sweep]
    /\ dpc' = "swept"
    /\ UNCHANGED dargs
    /\ UNCHANGED ahpVars
    /\ UNCHANGED topsisVars
    /\ UNCHANGED restVars

\* the outputs with those of DMU i replaced by its target_outputs
WithTarget(outputs, i, target_outputs) ==
    [j \in DOMAIN outputs |-> IF j = i THEN target_outputs ELSE outputs[j]]

\* dea_efficiency(inputs, outputs with the target of DMU i, i, 'output')
RecomputeTarget ==
    /\ dpc = "swept"
    /\ dargs.orientation = "output"
    /\ \E i \in DOMAIN dres.sweep.improvement_targets :
         \E again \in dea_efficiency(dargs.inputs,
                          WithTarget(dargs.outputs, i,
                                     dres.sweep.improvement_targets[i].target_outputs),
                          i, "output", FALSE) :
            dres' = [sweep |-> dres.sweep,
                     recomputed |-> [dmu |-> i, result |-> again]]
    /\ dpc' = "recomputed"
    /\ UNCHANGED dargs
    /\ UNCHANGED ahpVars
    /\ UNCHANGED topsisVars
    /\ UNCHANGED restVars

SpecDeaAll == InitDeaAll /\ [][DeaEfficiencyAll \/ RecomputeTarget]_vars

\* |e - 1.0| <= 1e-6
WithinTolerance(e) == IsFinite(e) /\ Abs(e[1] - e[2]) * 1000000 <= e[2]

\* C13: is_efficient is True, and the DMU is listed in frontier_dmus, if and
\* only if its efficiency score e satisfies |e - 1.0| <= 1e-6.
C13_FrontierTolerance ==
    dpc = "swept" =>
        \A i \in DOMAIN dres.sweep.results :
            /\ ~IsNone(dres.sweep.results[i].is_efficient) =>
                   (Get(dres.sweep.results[i].is_efficient)
                        <=> WithinTolerance(Get(dres.sweep.results[i].efficiency)))
            /\ i \in dres.sweep.frontier_dmus
                   <=> WithinTolerance(dres.sweep.efficiencies[i])

\* the sweep ran on well-formed data and the solver abandoned no program
SweptWellFormed ==
    /\ dpc = "swept"
    /\ IsWellFormed(dargs.inputs, dargs.outputs)
    /\ dargs.gives_up = {}

\* C15: for a non-empty set of DMUs with strictly positive inputs and outputs
\* dea_efficiency_all, in either orientation, solves every program and returns
\* at least one DMU whose efficiency is within 1e-6 of 1.0: frontier_dmus is
\* not empty.
C15_FrontierExists ==
    SweptWellFormed =>
        /\ \A i \in DOMAIN dres.sweep.results :
               dres.sweep.results[i].status = <<"optimal">>
        /\ dres.sweep.frontier_dmus # {}
        /\ \E i \in dres.sweep.frontier_dmus :
               WithinTolerance(dres.sweep.efficiencies[i])

C15_Witness ==
    /\ SweptWellFormed
    /\ dargs.orientation = "input"
    /\ Rows(dargs.inputs) = MaxDmu
    /\ Cols(dargs.inputs) = 2
    /\ Cardinality(dres.sweep.frontier_dmus) = 2

\* C17: for a DMU that the output-oriented sweep reports as inefficient,
\* dea_efficiency on the same inputs and on the outputs with the DMU's own
\* replaced by its target_outputs (= outputs x phi) is solved and gives
\* efficiency 1.0 within the tolerance: the DMU is then efficient.
C17_TargetOnFrontier ==
    dpc = "recomputed" =>
        LET i == dres.recomputed.dmu
            again == dres.recomputed.result
        IN  /\ ~Get(dres.sweep.results[i].is_efficient)
            /\ dres.sweep.improvement_targets[i].target_outputs =
                   [r \in DOMAIN dargs.outputs[i] |->
                       RMul(dargs.outputs[i][r], Get(dres.sweep.results[i].phi))]
            /\ again.status = <<"optimal">>
            /\ WithinTolerance(Get(again.efficiency))
            /\ Get(again.is_efficient)

C17_Witness ==
    /\ dpc = "recomputed"
    /\ IsWellFormed(dargs.inputs, dargs.outputs)
    /\ Rows(dargs.inputs) = MaxDmu
    /\ Cols(dargs.outputs) = 2
    /\ RLt(Get(dres.sweep.results[dres.recomputed.dmu].efficiency), One)
    /\ Get(dres.recomputed.result.efficiency) = One

\* the DMUs of the sweep whose program failed, and those whose program was solved
FailedDmus == {i \in DOMAIN dres.sweep.results : dres.sweep.results[i].status[1] = "failed: "}
SolvedDmus == {i \in DOMAIN dres.sweep.results : dres.sweep.results[i].status = <<"optimal">>}

\* the place of DMU i in the ranking
RankOf(ranking, i) == CHOOSE a \in DOMAIN ranking : ranking[a] = i

\* what the sweep does with a DMU whose program failed, the ranking apart: it
\* has efficiency 0, it is ranked (the ranking is a permutation of the DMUs),
\* its result carries the failure status and no value, and it is neither in
\* frontier_dmus nor in improvement_targets
FailedKept(i) ==
    /\ dres.sweep.efficiencies[i] = Zero
    /\ dres.sweep.ranking \in Orders(Rows(dargs.inputs))
    /\ \E a \in DOMAIN dres.sweep.ranking : dres.sweep.ranking[a] = i
    /\ Len(dres.sweep.results[i].status) = 2
    /\ IsNone(dres.sweep.results[i].efficiency)
    /\ i \notin dres.sweep.frontier_dmus
    /\ i \notin DOMAIN dres.sweep.improvement_targets

----------------------------------------------------------------------------
\* DEA: the two orientations on one data set

\* the well-formed data sets of at most two DMUs, and those of the largest
\* size with one input and one output
OrientData ==
    UNION {ValidData(nd) : nd \in 1 .. (MaxDmu - 1)}
    \cup [inputs : Tables(MaxDmu, 1, Positive), outputs : Tables(MaxDmu, 1, Positive)]
    \cup NearFrontierData

InitOrient ==
    /\ dpc = "start"
    /\ dargs \in OrientData
    /\ dres = None
    /\ apc = "unused" /\ n = 0 /\ comparisons = <<>>
    /\ matrix = NoMatrix /\ principal = NoVector /\ result = NoResult
    /\ tpc = "unused" /\ targs = <<>> /\ tres = <<>>
    /\ cache = <<>> /\ disk = <<>> /\ lpc = "unused"
    /\ plans = <<>> /\ ipc = "unused" /\ iargs = <<>> /\ ires = <<>>
    /\ ri_table = <<>> /\ memo = <<>> /\ lib = <<>>

\* dres.output = dea_efficiency_all(inputs, outputs, 'output')
\* dres.input = dea_efficiency_all(inputs, outputs, 'input')
DeaBothOrientations ==
    /\ dpc = "start"
    /\ \E out \in dea_efficiency_all(dargs.inputs, dargs.outputs, "output", {}),
          inp \in dea_efficiency_all(dargs.inputs, dargs.outputs, "input", {}) :
            dres' = [output |-> out, input |-> inp]
    /\ dpc' = "compared"
    /\ UNCHANGED dargs
    /\ UNCHANGED ahpVars
    /\ UNCHANGED topsisVars
    /\ UNCHANGED restVars

SpecOrient == InitOrient /\ [][DeaBothOrientations]_vars

\* C16: for a data set with strictly positive inputs and outputs,
\* frontier_dmus of the input-oriented sweep is the same set as frontier_dmus
\* of the output-oriented sweep.
C16_SameFrontier ==
    dpc = "compared" => dres.input.frontier_dmus = dres.output.frontier_dmus

C16_Witness ==
    /\ dpc = "compared"
    /\ Rows(dargs.inputs) = MaxDmu
    /\ dres.input.frontier_dmus = dres.output.frontier_dmus
    /\ Cardinality(dres.output.frontier_dmus) = 2
    /\ \E i \in DOMAIN dres.input.efficiencies :
          /\ RLt(dres.input.efficiencies[i], One)
          /\ dres.output.efficiencies[i] = dres.input.efficiencies[i]

\* the three classes of the DMUs of a sweep
OnFrontier(i) ==
    /\ i \in dres.sweep.frontier_dmus
    /\ dres.sweep.results[i].status = <<"optimal">>
    /\ Get(dres.sweep.results[i].is_efficient)
WithTargets(i) ==
    /\ i \in DOMAIN dres.sweep.improvement_targets
    /\ dres.sweep.results[i].status = <<"optimal">>
    /\ ~Get(dres.sweep.results[i].is_efficient)
WithoutSolution(i) ==
    /\ dres.sweep.results[i].status[1] = "failed: "
    /\ dres.sweep.efficiencies[i] = Zero

\* C26: in the result of dea_efficiency_all every DMU is in exactly one of
\* three classes: listed in frontier_dmus (solved, is_efficient True), a key
\* of improvement_targets (solved, not efficient), or failed (failure status,
\* efficiency 0); frontier_dmus is the set of the indices whose result has
\* is_efficient True.
C26_ThreeClasses ==
    dpc = "swept" =>
        /\ \A i \in DOMAIN dres.sweep.results :
               /\ OnFrontier(i) \/ WithTargets(i) \/ WithoutSolution(i)
               /\ ~(i \in dres.sweep.frontier_dmus /\ i \in DOMAIN dres.sweep.improvement_targets)
               /\ WithoutSolution(i) =>
                      /\ i \notin dres.sweep.frontier_dmus
                      /\ i \notin DOMAIN dres.sweep.improvement_targets
        /\ dres.sweep.frontier_dmus =
               {i \in DOMAIN dres.sweep.results :
                   /\ ~IsNone(dres.sweep.results[i].is_efficient)
                   /\ Get(dres.sweep.results[i].is_efficient)}

C26_Witness ==
    /\ dpc = "swept"
    /\ Rows(dargs.inputs) = MaxDmu
    /\ OnFrontier(0)
    /\ WithTargets(1)
    /\ WithoutSolution(2)

----------------------------------------------------------------------------
\* create_comparison_matrix: the order of the judgments

\* the places in the mapping of the judgments on the pair {i, j}, i # j
WritesOf(i, j) ==
    {a \in DOMAIN comparisons :
        /\ comparisons[a].i # comparisons[a].j
        /\ {comparisons[a].i, comparisons[a].j} = {i, j}}

\* the last of them
LastWrite(i, j) == CHOOSE a \in WritesOf(i, j) : \A b \in WritesOf(i, j) : b <= a

\* C28: create_comparison_matrix processes the judgments in mapping order and
\* the last one on an unordered pair wins: a pair without a judgment has 1 in
\* both cells, a judgment keyed (i, i) is ignored, and when (i, j) and (j, i)
\* are both supplied the later one sets both cells; the result is
\* reciprocal-symmetric.
C28_LastWriteWins ==
    apc = "built" =>
        \A i, j \in Idx(n) :
            /\ matrix[i][i] = One
            /\ matrix[j][i] = RDiv(One, matrix[i][j])
            /\ (i # j /\ WritesOf(i, j) = {}) => matrix[i][j] = One
            /\ (i # j /\ WritesOf(i, j) # {}) =>
                   LET c == comparisons[LastWrite(i, j)]
                   IN  matrix[i][j] = IF c.i = i THEN c.value ELSE RDiv(One, c.value)

\* (0, 1) then (1, 0) with values that are not reciprocals, and in another
\* call a judgment keyed on the diagonal
C28_Witness ==
    /\ apc = "built"
    /\ Len(comparisons) = 2
    /\ <<comparisons[1].i, comparisons[1].j>> = <<0, 1>>
    /\ <<comparisons[2].i, comparisons[2].j>> = <<1, 0>>
    /\ comparisons[2].value # RDiv(One, comparisons[1].value)
    /\ matrix[1][0] = comparisons[2].value
    /\ matrix[0][1] = RDiv(One, comparisons[2].value)

----------------------------------------------------------------------------
\* TOPSIS: tags that are neither 'benefit' nor 'cost'

\* the tags with every one that is not 'benefit' in lower case written 'cost'
AsCost(criteria_types) ==
    [j \in DOMAIN criteria_types |->
        IF Lower(criteria_types[j]) = "benefit" THEN criteria_types[j] ELSE "cost"]

\* tag vectors with a misspelt and an empty tag
LooseTagVectors == [Criteria -> {"benefit", "cost", "benfit", ""}]

InitTags ==
    /\ tpc = "start"
    /\ targs \in [decision_matrix : DecisionMatrices(MaxAlt),
                  weights : {WeightPair(R(1, 2), R(1, 2)), WeightPair(One, Zero)},
                  criteria_types : LooseTagVectors]
    /\ tres = NoCall
    /\ apc = "unused" /\ n = 0 /\ comparisons = <<>>
    /\ matrix = NoMatrix /\ principal = NoVector /\ result = NoResult
    /\ dpc = "unused" /\ dargs = <<>> /\ dres = <<>>
    /\ cache = <<>> /\ disk = <<>> /\ lpc = "unused"
    /\ plans = <<>> /\ ipc = "unused" /\ iargs = <<>> /\ ires = <<>>
    /\ ri_table = <<>> /\ memo = <<>> /\ lib = <<>>

\* tres.given = topsis_rank(decision_matrix, weights, criteria_types)
\* tres.as_cost = topsis_rank(decision_matrix, weights, AsCost(criteria_types))
\* argsort is a function of its argument: equal closeness, equal order
TopsisRankTagged ==
    /\ tpc = "start"
    /\ LET given == Eval(topsis_steps(targs.decision_matrix, targs.weights,
                                      targs.criteria_types))
           as_cost == Eval(topsis_steps(targs.decision_matrix, targs.weights,
                                        AsCost(targs.criteria_types)))
       IN  \E r1 \in ArgSortDescending(given.closeness),
              r2 \in ArgSortDescending(as_cost.closeness) :
                /\ given.closeness = as_cost.closeness => r1 = r2
                /\ tres' = [given |-> topsis_rank(given, r1),
                            as_cost |-> topsis_rank(as_cost, r2)]
    /\ tpc' = "tagged"
    /\ UNCHANGED targs
    /\ UNCHANGED ahpVars
    /\ UNCHANGED deaVars
    /\ UNCHANGED restVars

SpecTags == InitTags /\ [][TopsisRankTagged]_vars

\* C29: ideal_solutions and topsis_rank reject no tag: a tag that is not
\* 'benefit' when lower-cased is treated exactly as 'cost' (ideal = column
\* minimum, negative-ideal = column maximum of the weighted matrix) and a
\* normal ranking is returned.
C29_UnknownTagIsCost ==
    tpc = "tagged" =>
        /\ tres.given = tres.as_cost
        /\ tres.given.ranking \in Orders(Rows(targs.decision_matrix))
        /\ \A j \in Criteria :
               Lower(targs.criteria_types[j]) # "benefit" =>
                   /\ tres.given.ideal[j] = RMinOf(Column(tres.given.weighted_matrix, j))
                   /\ tres.given.negative_ideal[j] =
                          RMaxOf(Column(tres.given.weighted_matrix, j))

C29_Witness ==
    /\ tpc = "tagged"
    /\ targs.criteria_types[0] = "benfit"
    /\ targs.criteria_types[1] = ""
    /\ Rows(targs.decision_matrix) = MaxAlt
    /\ tres.given.ideal[0] # tres.given.negative_ideal[0]
    /\ tres.given.ideal[1] # tres.given.negative_ideal[1]
    /\ tres.given.closeness[tres.given.ranking[1]] # tres.given.closeness[tres.given.ranking[MaxAlt]]

-----------------------------------------------------------------------------
(* TOPSIS: the weight of one criterion increased *)

\* topsis_sensitivity_analysis, direction 'increase': weight i multiplied by
\* 1 + variation_pct, then the vector divided by its sum
IncreasedWeights(base_weights, i, variation_pct) ==
    LET varied == [j \in DOMAIN base_weights |->
                      IF j = i THEN RMul(base_weights[j], RAdd(One, variation_pct))
                      ELSE base_weights[j]]
        total == RSum(varied, Cardinality(DOMAIN varied))
    IN  [j \in DOMAIN varied |-> RDiv(varied[j], total)]

\* columns of three and of two entries with an integer Euclidean norm
TripleColumns == {<<1, 8, 4>>, <<8, 1, 4>>, <<4, 2, 4>>}
PairColumns == {<<3, 4>>, <<4, 3>>, <<0, 1>>, <<1, 1>>}
\* the matrices of m alternatives and three criteria with the given columns
ThreeCriteria(m, cols) ==
    {[i \in Idx(m) |-> [j \in Idx(3) |-> <<cs[j][i + 1], 1>>]] : cs \in [Idx(3) -> cols]}

\* base weights for two and for three criteria
TwoWeights == {WeightPair(R(1, 4), R(3, 4)), WeightPair(One, One)}
ThreeWeights ==
    {[j \in Idx(3) |-> R(1, 3)], [j \in Idx(3) |-> IF j = 0 THEN R(1, 2) ELSE R(1, 4)]}
\* variation_pct: the weight doubled, and multiplied by 4
Doubled == {One}
Increases == {One, R(3, 1)}

\* alternative a holds the best value of criterion c: the largest for a
\* benefit criterion, the smallest for a cost criterion
HoldsBest(d, criteria_types, c, a) ==
    \A k \in DOMAIN d :
        IF Lower(criteria_types[c]) = "benefit"
        THEN RLe(d[k][c], d[a][c]) ELSE RLe(d[a][c], d[k][c])

\* the calls drawn: k criteria, alternative a best on criterion c of positive weight
IncreaseCases(ds, ws, k, pcts) ==
    {x \in [decision_matrix : ds, weights : ws,
            criteria_types : [Idx(k) -> {"benefit", "cost"}],
            c : Idx(k), a : Idx(MaxAlt), variation_pct : pcts] :
        /\ x.a \in DOMAIN x.decision_matrix
        /\ HoldsBest(x.decision_matrix, x.criteria_types, x.c, x.a)}

InitIncrease ==
    /\ tpc = "start"
    /\ targs \in IncreaseCases(DecisionMatrices(MaxAlt), TwoWeights, 2, Doubled)
             \cup IncreaseCases(ThreeCriteria(2, PairColumns), ThreeWeights, 3, Doubled)
             \cup IncreaseCases(ThreeCriteria(3, TripleColumns), ThreeWeights, 3, Increases)
    /\ tres = NoCall
    /\ apc = "unused" /\ n = 0 /\ comparisons = <<>>
    /\ matrix = NoMatrix /\ principal = NoVector /\ result = NoResult
    /\ dpc = "unused" /\ dargs = <<>> /\ dres = <<>>
    /\ cache = <<>> /\ disk = <<>> /\ lpc = "unused"
    /\ plans = <<>> /\ ipc = "unused" /\ iargs = <<>> /\ ires = <<>>
    /\ ri_table = <<>> /\ memo = <<>> /\ lib = <<>>

\* the base call and the 'increase' call of topsis_sensitivity_analysis for
\* criterion c; argsort is a function of its argument
TopsisRankIncreased ==
    /\ tpc = "start"
    /\ LET first == Eval(topsis_steps(targs.decision_matrix, targs.weights,
                                      targs.criteria_types))
           second == Eval(topsis_steps(targs.decision_matrix,
                                       IncreasedWeights(targs.weights, targs.c,
                                                        targs.variation_pct),
                                       targs.criteria_types))
       IN  \E r1 \in ArgSortDescending(first.closeness),
              r2 \in ArgSortDescending(second.closeness) :
                /\ first.closeness = second.closeness => r1 = r2
                /\ tres' = [first |-> topsis_rank(first, r1),
                            second |-> topsis_rank(second, r2)]
    /\ tpc' = "increased"
    /\ UNCHANGED targs
    /\ UNCHANGED ahpVars
    /\ UNCHANGED deaVars
    /\ UNCHANGED restVars

SpecIncrease == InitIncrease /\ [][TopsisRankIncreased]_vars

\* no two alternatives have the same closeness: the ranking is the only one
\* argsort can return
Untied(closeness) ==
    \A i, k \in DOMAIN closeness : i # k => closeness[i] # closeness[k]

\* C23 as stated: when alternative a holds the best value on criterion c and
\* the weight of c is increased (the other supplied weights unchanged, then
\* renormalised), a's place in the ranking is not worse than under the base
\* weights.  Stated for the calls where no two alternatives have the same
\* closeness, so that both rankings are fixed by the closeness scores.
C23_WeightIncreaseAsStated ==
    (tpc = "increased" /\ Untied(tres.first.closeness) /\ Untied(tres.second.closeness)) =>
        RankOf(tres.second.ranking, targs.a) <= RankOf(tres.first.ranking, targs.a)

\* C23 amended: with at most two criteria or at most two alternatives, an
\* alternative ranked ahead of a after the increase either had a strictly
\* greater closeness than a before it, or has the closeness of a after it.
\* (SpecIncrease)
C23_WeightIncrease ==
    (tpc = "increased" /\ (Cols(targs.decision_matrix) <= 2 \/ Rows(targs.decision_matrix) <= 2)) =>
        \A k \in Alternatives :
            RankOf(tres.second.ranking, k) < RankOf(tres.second.ranking, targs.a) =>
                \/ RLt(tres.first.closeness[targs.a], tres.first.closeness[k])
                \/ tres.second.closeness[k] = tres.second.closeness[targs.a]

\* three alternatives, two criteria: a is behind another alternative under the
\* base weights and first after the weight of its best criterion is increased
C23_Witness ==
    /\ tpc = "increased"
    /\ Cols(targs.decision_matrix) = 2 /\ Rows(targs.decision_matrix) = 3
    /\ RankOf(tres.first.ranking, targs.a) > 1
    /\ RankOf(tres.second.ranking, targs.a) = 1
    /\ \A k \in Alternatives \ {targs.a} :
           RLt(tres.second.closeness[k], tres.second.closeness[targs.a])

-----------------------------------------------------------------------------
(* config/loader.py: the cache of configuration files *)

\* the files asked for, and what a file can be on disk: missing, not JSON, or
\* JSON with some content
Filenames == {"appliances.json", "market_params.json"}
Contents == {"first", "second"}
FileStates == {<<"missing">>, <<"garbled">>} \cup {<<"json", c>> : c \in Contents}

\* load_config: FileNotFoundError when the file does not exist, JSONDecodeError
\* from json.load when it is not JSON, else a new dict; id tells the dicts apart
load_config(files, filename, id) ==
    IF files[filename] = <<"missing">>
    THEN [raised |-> "FileNotFoundError", value |-> None]
    ELSE IF files[filename] = <<"garbled">>
    THEN [raised |-> "JSONDecodeError", value |-> None]
    ELSE [raised |-> "", value |-> Some([id |-> id, content |-> files[filename][2]])]

\* mutant: the file is loaded at every call
get_cached_always(c, files, filename, id) ==
    LET loaded == load_config(files, filename, id)
    IN  IF loaded.raised # ""
        THEN [cache |-> c, raised |-> loaded.raised, value |-> None, loaded |-> TRUE]
        ELSE [cache |-> [c EXCEPT ![filename] = loaded.value],
              raised |-> "", value |-> loaded.value, loaded |-> TRUE]

\* _get_cached: load_config only when the filename is not in _cache; the
\* assignment to _cache[filename] does not happen when load_config raises
get_cached(c, files, filename, id) ==
    IF IsNone(c[filename])
    THEN LET loaded == load_config(files, filename, id)
         IN  IF loaded.raised # ""
             THEN [cache |-> c, raised |-> loaded.raised, value |-> None, loaded |-> TRUE]
             ELSE [cache |-> [c EXCEPT ![filename] = loaded.value],
                   raised |-> "", value |-> loaded.value, loaded |-> TRUE]
    ELSE [cache |-> c, raised |-> "", value |-> c[filename], loaded |-> FALSE]

\* the process starts with an empty _cache; the files are in any state
InitCache ==
    /\ cache = [f \in Filenames |-> None]
    /\ disk \in [Filenames -> FileStates]
    /\ lpc = [calls |-> 0, loads |-> [f \in Filenames |-> 0], last |-> <<>>]
    /\ apc = "unused" /\ n = 0 /\ comparisons = <<>>
    /\ matrix = NoMatrix /\ principal = NoVector /\ result = NoResult
    /\ tpc = "unused" /\ targs = <<>> /\ tres = <<>>
    /\ dpc = "unused" /\ dargs = <<>> /\ dres = <<>>
    /\ plans = <<>> /\ ipc = "unused" /\ iargs = <<>> /\ ires = <<>>
    /\ ri_table = <<>> /\ memo = <<>> /\ lib = <<>>

\* one call _get_cached(filename); lpc.loads counts the dicts load_config returned
GetCached ==
    /\ lpc.calls < MaxCalls
    /\ \E filename \in Filenames :
           LET r == get_cached(cache, disk, filename, lpc.calls + 1)
           IN  /\ cache' = r.cache
               /\ lpc' = [calls |-> lpc.calls + 1,
                          loads |-> [lpc.loads EXCEPT ![filename] =
                                        IF r.loaded /\ r.raised = "" THEN @ + 1 ELSE @],
                          last |-> [filename |-> filename, raised |-> r.raised,
                                    value |-> r.value, loaded |-> r.loaded]]
    /\ UNCHANGED disk
    /\ UNCHANGED <<ahpVars, topsisVars, deaVars, icVars, pureVars>>

\* a configuration file is written, replaced or removed between two calls
FileChanged ==
    /\ \E filename \in Filenames : \E state \in FileStates :
           /\ disk[filename] # state
           /\ disk' = [disk EXCEPT ![filename] = state]
    /\ UNCHANGED <<cache, lpc>>
    /\ UNCHANGED <<ahpVars, topsisVars, deaVars, icVars, pureVars>>

SpecCache == InitCache /\ [][GetCached \/ FileChanged]_vars

\* C30: at every _get_cached call, load_config is invoked exactly when the
\* filename is not in _cache; a filename in _cache is answered with the cached
\* object itself and _cache stays as it is; a load that fails raises its error
\* to the caller and leaves _cache unchanged; a load that succeeds stores the
\* dict returned; no file is loaded successfully more than once.
C30_LoadedOnce ==
    [][lpc'.calls = lpc.calls + 1 =>
          LET f == lpc'.last.filename
              last == lpc'.last
          IN  /\ last.loaded <=> IsNone(cache[f])
              /\ ~IsNone(cache[f]) =>
                     /\ last.raised = "" /\ last.value = cache[f]
                     /\ cache' = cache
              /\ (IsNone(cache[f]) /\ disk[f][1] # "json") =>
                     /\ last.raised = (IF disk[f] = <<"missing">> THEN "FileNotFoundError"
                                       ELSE "JSONDecodeError")
                     /\ cache' = cache
              /\ (IsNone(cache[f]) /\ disk[f][1] = "json") =>
                     /\ last.raised = ""
                     /\ Get(last.value).content = disk[f][2]
                     /\ cache' = [cache EXCEPT ![f] = last.value]
              /\ lpc'.loads[f] <= 1]_vars

\* a file was loaded, then replaced on disk, and the last call returned the
\* dict loaded first without reading the file; the other file failed to load
\* and is not in _cache
C30_Witness ==
    /\ lpc.calls = MaxCalls
    /\ lpc.last.filename = "appliances.json"
    /\ ~lpc.last.loaded
    /\ lpc.loads["appliances.json"] = 1
    /\ disk["appliances.json"] = <<"json", "second">>
    /\ Get(lpc.last.value).content = "first"
    /\ disk["market_params.json"] = <<"missing">>
    /\ IsNone(cache["market_params.json"])

-----------------------------------------------------------------------------
(* Incentive compatibility: the sweeps over the shared plan dictionary *)

\* SUBSCRIPTION_PLANS: the three plan dicts, with the fields the bill reads;
\* a field holds a number, Some(v), or a value that is no number, None
SUBSCRIPTION_PLANS ==
    [lite |-> [monthly_fee |-> Some(449), hours_included |-> Some(88),
               overage_per_hour |-> Some(6), max_overage |-> Some(150)],
     standard |-> [monthly_fee |-> Some(599), hours_included |-> Some(177),
                   overage_per_hour |-> Some(5), max_overage |-> Some(200)],
     premium |-> [monthly_fee |-> Some(799), hours_included |-> Some(307),
                  overage_per_hour |-> Some(0), max_overage |-> Some(0)]]

\* the keys of SUBSCRIPTION_PLANS in insertion order; 'light', 'moderate' and
\* 'heavy' are bound to the dicts of 'lite', 'standard' and 'premium'
PlanKeys == <<"lite", "standard", "premium", "light", "moderate", "heavy">>
PlanObject(key) ==
    CASE key \in {"lite", "light"} -> "lite"
      [] key \in {"standard", "moderate"} -> "standard"
      [] key \in {"premium", "heavy"} -> "premium"

Segments == <<"light", "moderate", "heavy">>
\* SEGMENT_USAGE_HOURS[segment]['expected']
SEGMENT_USAGE_HOURS == [light |-> 120, moderate |-> 200, heavy |-> 320]
\* service_value_base * SERVICE_VALUE_MULTIPLIER[segment], in hundredths
ServiceValue == [light |-> 50000, moderate |-> 55000, heavy |-> 60000]

\* calculate_overage: the fee in hundredths, None when min() meets a value
\* that is no number (TypeError)
calculate_overage(p, plan, actual_hours) ==
    LET plan_config == p[PlanObject(plan)]
        hours_included == Get(plan_config.hours_included)
        raw_overage == (actual_hours - hours_included) * Get(plan_config.overage_per_hour)
    IN  IF actual_hours <= hours_included THEN Some(0)
        ELSE IF IsNone(plan_config.max_overage) THEN None
        ELSE IF raw_overage <= Get(plan_config.max_overage)
        THEN Some(100 * raw_overage)
        ELSE Some(100 * Get(plan_config.max_overage))

\* calculate_monthly_bill at efficiency score 75 (tier 'star', 12 % off the
\* base fee) with 18 % GST: total_bill in hundredths, None for a TypeError
calculate_monthly_bill(p, plan, actual_hours) ==
    LET base_fee == p[PlanObject(plan)].monthly_fee
        overage_fee == calculate_overage(p, plan, actual_hours)
    IN  IF IsNone(overage_fee) \/ IsNone(base_fee) THEN None
        ELSE LET efficiency_discount == 12 * Get(base_fee)
                 sum == 100 * Get(base_fee) + Get(overage_fee) - efficiency_discount
                 subtotal == IF sum < 0 THEN 0 ELSE sum
             IN  Some((118 * subtotal + 50) \div 100)

\* calculate_utility: service value minus total bill
calculate_utility(p, segment, plan) ==
    LET bill == calculate_monthly_bill(p, plan, SEGMENT_USAGE_HOURS[segment])
    IN  IF IsNone(bill) THEN None ELSE Some(ServiceValue[segment] - Get(bill))

\* calculate_all_utilities: one utility per key of SUBSCRIPTION_PLANS
calculate_all_utilities(p, segment) ==
    [k \in 1 .. Len(PlanKeys) |-> calculate_utility(p, segment, PlanKeys[k])]

\* max(utilities.items(), key=utility)[0]: the first key of the largest utility
BestPlan(utilities) ==
    LET best == CHOOSE k \in DOMAIN utilities :
                    /\ \A j \in DOMAIN utilities : Get(utilities[j]) <= Get(utilities[k])
                    /\ \A j \in 1 .. (k - 1) : Get(utilities[j]) < Get(utilities[k])
    IN  PlanKeys[best]

\* check_ic_light, check_ic_moderate, check_ic_heavy: None when a bill raises
check_ic(p, segment) ==
    LET utilities == calculate_all_utilities(p, segment)
        utility_light == Get(utilities[4])
        utility_moderate == Get(utilities[5])
        utility_heavy == Get(utilities[6])
        own == Get(utilities[CHOOSE k \in 4 .. 6 : PlanKeys[k] = segment])
    IN  IF \E k \in DOMAIN utilities : IsNone(utilities[k]) THEN None
        ELSE Some([satisfied |-> /\ own >= utility_light
                                 /\ own >= utility_moderate
                                 /\ own >= utility_heavy,
                   utilities |-> [light |-> utility_light, moderate |-> utility_moderate,
                                  heavy |-> utility_heavy],
                   best_plan |-> BestPlan(utilities)])

check_ic_heavy(p) == check_ic(p, "heavy")

\* validate_ic: the three checks, all_satisfied and the violations
validate_ic(p) ==
    LET results == [k \in 1 .. 3 |-> check_ic(p, Segments[k])]
    IN  IF \E k \in 1 .. 3 : IsNone(results[k]) THEN None
        ELSE Some([all_satisfied |-> \A k \in 1 .. 3 : Get(results[k]).satisfied,
                   violations |-> {Segments[k] : k \in {j \in 1 .. 3 :
                                                        ~Get(results[j]).satisfied}},
                   individual_results |-> results])

\* the field a sweep writes: SUBSCRIPTION_PLANS['light']['max_overage'] for
\* 'overage_cap', SUBSCRIPTION_PLANS['heavy']['monthly_fee'] for 'heavy_fee'
SweptKey(parameter) == IF parameter = "overage_cap" THEN "light" ELSE "heavy"
SweptField(parameter) == IF parameter = "overage_cap" THEN "max_overage" ELSE "monthly_fee"
ReadField(p, parameter) == p[PlanObject(SweptKey(parameter))][SweptField(parameter)]
WriteField(p, parameter, value) ==
    [p EXCEPT ![PlanObject(SweptKey(parameter))][SweptField(parameter)] = value]

\* mutant: the restore follows the try block instead of standing in finally
AfterTryNoFinally(p, parameter, original, raised) ==
    IF raised THEN p ELSE WriteField(p, parameter, original)

\* the finally block: the original value is written back, exception or not
AfterTry(p, parameter, original, raised) == WriteField(p, parameter, original)

\* the test values: caps, fees and a value that is no number
TestValues(parameter) ==
    IF parameter = "overage_cap" THEN {Some(100), Some(600), None}
    ELSE IF parameter = "heavy_fee" THEN {Some(399), Some(699), None}
    ELSE {Some(100)}
ValueLists(parameter) ==
    UNION {[1 .. len -> TestValues(parameter)] : len \in 0 .. MaxValues}

\* analyze_ic_sensitivity(parameter, range_values) is about to be called on the
\* plans of the module; validate_ic was called before
InitSweep ==
    /\ plans = SUBSCRIPTION_PLANS
    /\ ipc = "start"
    /\ \E parameter \in {"overage_cap", "heavy_fee", "hours"} :
           iargs \in [parameter : {parameter}, range_values : ValueLists(parameter)]
    /\ ires = [t |-> 0, original |-> None, results |-> <<>>,
               before |-> validate_ic(SUBSCRIPTION_PLANS), after |-> None,
               returned |-> None]
    /\ apc = "unused" /\ n = 0 /\ comparisons = <<>>
    /\ matrix = NoMatrix /\ principal = NoVector /\ result = NoResult
    /\ tpc = "unused" /\ targs = <<>> /\ tres = <<>>
    /\ dpc = "unused" /\ dargs = <<>> /\ dres = <<>>
    /\ cache = <<>> /\ disk = <<>> /\ lpc = "unused"
    /\ ri_table = <<>> /\ memo = <<>> /\ lib = <<>>

\* analyze_ic_sensitivity with a parameter it does not know: ValueError
UnknownParameter ==
    /\ ipc = "start"
    /\ iargs.parameter \notin {"overage_cap", "heavy_fee"}
    /\ ipc' = "raised"
    /\ UNCHANGED <<plans, iargs, ires>>
    /\ UNCHANGED <<ahpVars, topsisVars, deaVars, loaderVars, pureVars>>

\* the head of the loop body: the original value is read and the test value
\* number t + 1 written into the plan
SetTestValue ==
    /\ ipc \in {"start", "restored"}
    /\ iargs.parameter \in {"overage_cap", "heavy_fee"}
    /\ ires.t < Len(iargs.range_values)
    /\ plans' = WriteField(plans, iargs.parameter, iargs.range_values[ires.t + 1])
    /\ ires' = [ires EXCEPT !.original = ReadField(plans, iargs.parameter)]
    /\ ipc' = "set"
    /\ UNCHANGED iargs
    /\ UNCHANGED <<ahpVars, topsisVars, deaVars, loaderVars, pureVars>>

\* the try statement: check_ic_heavy and results.append, then the finally
\* block; an exception of check_ic_heavy leaves the sweep after the finally block
CheckAndRestore ==
    /\ ipc = "set"
    /\ LET ic_heavy == check_ic_heavy(plans)
           raised == IsNone(ic_heavy)
       IN  /\ plans' = AfterTry(plans, iargs.parameter, ires.original, raised)
           /\ IF raised
              THEN /\ ipc' = "raised"
                   /\ UNCHANGED ires
              ELSE /\ ipc' = "restored"
                   /\ ires' = [ires EXCEPT
                                 !.t = @ + 1,
                                 !.results = Append(@,
                                     [value |-> iargs.range_values[ires.t + 1],
                                      ic_satisfied |-> Get(ic_heavy).satisfied,
                                      utility_light |-> Get(ic_heavy).utilities.light,
                                      utility_heavy |-> Get(ic_heavy).utilities.heavy,
                                      best_plan |-> Get(ic_heavy).best_plan])]
    /\ UNCHANGED iargs
    /\ UNCHANGED <<ahpVars, topsisVars, deaVars, loaderVars, pureVars>>

\* the first test value that satisfies the constraint, None when there is none
Breakeven(results) ==
    IF \E k \in DOMAIN results : results[k].ic_satisfied
    THEN results[CHOOSE k \in DOMAIN results :
                     /\ results[k].ic_satisfied
                     /\ \A j \in 1 .. (k - 1) : ~results[j].ic_satisfied].value
    ELSE None

\* after the loop: the breakeven value is looked up and the dict returned
ReturnSweep ==
    /\ ipc \in {"start", "restored"}
    /\ iargs.parameter \in {"overage_cap", "heavy_fee"}
    /\ ires.t = Len(iargs.range_values)
    /\ ires' = [ires EXCEPT !.returned = Some([parameter |-> iargs.parameter,
                                               results |-> ires.results,
                                               breakeven_value |-> Breakeven(ires.results)])]
    /\ ipc' = "returned"
    /\ UNCHANGED <<plans, iargs>>
    /\ UNCHANGED <<ahpVars, topsisVars, deaVars, loaderVars, pureVars>>

\* the caller calls validate_ic after the sweep returned or raised
ValidateAfter ==
    /\ ipc \in {"returned", "raised"}
    /\ ires' = [ires EXCEPT !.after = validate_ic(plans)]
    /\ ipc' = "validated"
    /\ UNCHANGED <<plans, iargs>>
    /\ UNCHANGED <<ahpVars, topsisVars, deaVars, loaderVars, pureVars>>

SweepNext ==
    \/ UnknownParameter
    \/ SetTestValue
    \/ CheckAndRestore
    \/ ReturnSweep
    \/ ValidateAfter

SpecSweep == InitSweep /\ [][SweepNext]_vars

\* the fields of the plan dicts that differ from the plans of the module
Deviations ==
    {<<o, f>> \in {"lite", "standard", "premium"}
                      \X {"monthly_fee", "hours_included", "overage_per_hour", "max_overage"} :
        plans[o][f] # SUBSCRIPTION_PLANS[o][f]}

\* C25: after analyze_ic_sensitivity returned or was left by an exception of
\* check_ic_heavy, the plan dicts are what they were before the call, so
\* SUBSCRIPTION_PLANS['light']['max_overage'] and
\* SUBSCRIPTION_PLANS['heavy']['monthly_fee'] have their old values and
\* validate_ic returns what it returned before; while test value t is in
\* place, the plan dicts differ from the original at most in the one field the
\* sweep writes, which holds that test value.
C25_PlansRestored ==
    /\ ipc \in {"returned", "raised", "validated", "restored"} =>
           /\ plans = SUBSCRIPTION_PLANS
           /\ plans[PlanObject("light")].max_overage = Some(150)
           /\ plans[PlanObject("heavy")].monthly_fee = Some(799)
    /\ ipc = "validated" => ires.after = ires.before
    /\ ipc = "set" =>
           /\ Deviations \subseteq
                  {<<PlanObject(SweptKey(iargs.parameter)), SweptField(iargs.parameter)>>}
           /\ ReadField(plans, iargs.parameter) = iargs.range_values[ires.t + 1]
           /\ ires.original = ReadField(SUBSCRIPTION_PLANS, iargs.parameter)

\* a sweep over the overage cap whose third test value made check_ic_heavy
\* raise, after two values with different answers, and validate_ic called again
C25_Witness ==
    /\ ipc = "validated"
    /\ iargs.parameter = "overage_cap"
    /\ Len(iargs.range_values) = 3
    /\ iargs.range_values[3] = None
    /\ IsNone(ires.returned)
    /\ Len(ires.results) = 2
    /\ ires.results[1].ic_satisfied # ires.results[2].ic_satisfied
    /\ ~Get(ires.after).all_satisfied

-----------------------------------------------------------------------------
(* AHP: np.linalg.eig in floating point, for positive matrices *)

\* the eigenvector is carried as integers that sum to about PerronScale
PerronScale == 10000
\* most multiplications by the matrix before the eigenvector is taken
PerronSteps == 30

\* (m v)[i], rounded down to an integer
MatVec(m, k, v) ==
    Eval([i \in Idx(k) |-> LET den == RowDen(m[i], k) IN IntDot(m[i], v, den, k) \div den])

RECURSIVE IntSum(_, _)
IntSum(v, k) == IF k = 0 THEN 0 ELSE IntSum(v, k - 1) + v[k - 1]

\* v multiplied by m and scaled back to the sum PerronScale, until it no longer
\* changes or steps multiplications are done
RECURSIVE PowerIterate(_, _, _, _)
PowerIterate(m, k, v, steps) ==
    LET w == MatVec(m, k, v)
        total == IntSum(w, k)
        next == Eval([i \in Idx(k) |-> (w[i] * PerronScale) \div total])
    IN  IF steps = 0 \/ next = v THEN v ELSE PowerIterate(m, k, next, steps - 1)

\* the eigenpair of largest eigenvalue of a positive matrix (Perron), as eig
\* returns it up to rounding: the vector to 1/PerronScale, lambda to thousandths
PerronPair(m, k) ==
    LET v == PowerIterate(m, k, Eval([i \in Idx(k) |-> PerronScale \div k]), PerronSteps)
        w == MatVec(m, k, v)
    IN  [lam |-> R((2 * IntSum(w, k) * 1000 + IntSum(v, k)) \div (2 * IntSum(v, k)), 1000),
         vec |-> v]

-----------------------------------------------------------------------------
(* AHP: ahp_sensitivity_analysis *)

\* most pairs in vary_indices
MaxPairs == 2

\* the comparison matrices a caller hands over: reciprocal, unit diagonal,
\* judgments from Scale above the diagonal
ComparisonMatrices(k) ==
    {[i \in Idx(k) |-> [j \in Idx(k) |->
          IF i = j THEN One ELSE IF i < j THEN u[<<i, j>>] ELSE RDiv(One, u[<<j, i>>])]] :
        u \in [{c \in Idx(k) \X Idx(k) : c[1] < c[2]} -> Scale]}

\* vary_indices: lists of distinct pairs (i, j), i # j
PairLists(k) ==
    UNION {{s \in [1 .. len -> {c \in Idx(k) \X Idx(k) : c[1] # c[2]}] :
               \A a, b \in 1 .. len : a # b => s[a] # s[b]} :
           len \in 0 .. MaxPairs}

\* variation_range
Variations == {R(1, 4), R(1, 1000)}

\* [1 - variation_range, 1 + variation_range]
Factors(variation_range) == <<RSub(One, variation_range), RAdd(One, variation_range)>>

\* f"{factor:.2f}": factor in hundredths, rounded to nearest
Format2(factor) == (2 * factor[1] * 100 + factor[2]) \div (2 * factor[2])

\* mutant: the factor is kept in the key as it is
VariantKeyExact(i, j, factor) == <<i, j, factor>>

\* key = f"({i},{j})_x{factor:.2f}"
VariantKey(i, j, factor) == <<i, j, Format2(factor)>>

\* d[key] = e
Put(d, key, e) == [x \in DOMAIN d \cup {key} |-> IF x = key THEN e ELSE d[x]]

\* mutant: the judgments are written into comparison_matrix itself
VariedNoCopy(comparison_matrix, i, j, new_value) ==
    LET first == [comparison_matrix EXCEPT ![i][j] = new_value]
        second == [first EXCEPT ![j][i] = RDiv(One, new_value)]
    IN  [comparison_matrix |-> second, varied_matrix |-> second]

\* varied_matrix = comparison_matrix.copy(); varied_matrix[i, j] = new_value;
\* varied_matrix[j, i] = 1 / new_value: the two arrays afterwards
Varied(comparison_matrix, i, j, new_value) ==
    LET first == [comparison_matrix EXCEPT ![i][j] = new_value]
        second == [first EXCEPT ![j][i] = RDiv(One, new_value)]
    IN  [comparison_matrix |-> comparison_matrix, varied_matrix |-> second]

\* the caller holds a comparison matrix and calls
\* ahp_sensitivity_analysis(matrix, vary_indices, variation_range)
InitSensitivity ==
    /\ apc = "called"
    /\ n \in 2 .. MaxN
    /\ comparisons = <<>>
    /\ matrix \in ComparisonMatrices(n)
    /\ principal = NoVector
    /\ \E vi \in PairLists(n), vr \in Variations :
           result = [status |-> "called", at_call |-> matrix,
                     vary_indices |-> vi, variation_range |-> vr]
    /\ tpc = "unused" /\ targs = <<>> /\ tres = <<>>
    /\ dpc = "unused" /\ dargs = <<>> /\ dres = <<>>
    /\ cache = <<>> /\ disk = <<>> /\ lpc = "unused"
    /\ plans = <<>> /\ ipc = "unused" /\ iargs = <<>> /\ ires = <<>>
    /\ ri_table = <<>> /\ memo = <<>> /\ lib = <<>>

\* base_result = ahp_consistency_ratio(comparison_matrix); results = {...}
SensitivityBase ==
    /\ apc = "called"
    /\ LET p == PerronPair(matrix, n)
           base_result == ahp_consistency_ratio(matrix, n, p)
       IN  /\ principal' = p.vec
           /\ result' = [status |-> "loop", at_call |-> result.at_call,
                         vary_indices |-> result.vary_indices,
                         variation_range |-> result.variation_range,
                         pos |-> 0,
                         evaluated |-> <<>>,
                         results |-> [base_weights |-> base_result.weights,
                                      variations |-> <<>>]]
    /\ apc' = "loop"
    /\ UNCHANGED <<n, comparisons, matrix>>
    /\ UNCHANGED <<topsisVars, deaVars, restVars>>

\* one pass of the inner loop: the pair vary_indices[pos \div 2], the factor
\* of index pos % 2
SensitivityVariant ==
    /\ apc = "loop"
    /\ result.pos < 2 * Len(result.vary_indices)
    /\ LET i == result.vary_indices[(result.pos \div 2) + 1][1]
           j == result.vary_indices[(result.pos \div 2) + 1][2]
           original_value == matrix[i][j]
           factor == Factors(result.variation_range)[(result.pos % 2) + 1]
           new_value == RMul(original_value, factor)
           arrays == Varied(matrix, i, j, new_value)
           varied_matrix == arrays.varied_matrix
           p == PerronPair(varied_matrix, n)
           varied_result == ahp_consistency_ratio(varied_matrix, n, p)
           entry == [new_value |-> new_value,
                     weights |-> varied_result.weights,
                     weight_change |-> [c \in Idx(n) |->
                         RSub(varied_result.weights[c], result.results.base_weights[c])],
                     cr |-> varied_result.cr,
                     is_consistent |-> varied_result.is_consistent]
       IN  /\ matrix' = arrays.comparison_matrix
           /\ principal' = p.vec
           /\ result' = [result EXCEPT
                  !.pos = @ + 1,
                  !.evaluated = Append(@, [i |-> i, j |-> j, factor |-> factor,
                                           matrix |-> varied_matrix,
                                           result |-> varied_result]),
                  !.results.variations = Put(@, VariantKey(i, j, factor), entry)]
    /\ UNCHANGED <<apc, n, comparisons>>
    /\ UNCHANGED <<topsisVars, deaVars, restVars>>

\* return results
SensitivityReturn ==
    /\ apc = "loop"
    /\ result.pos = 2 * Len(result.vary_indices)
    /\ apc' = "returned"
    /\ result' = [result EXCEPT !.status = "returned"]
    /\ UNCHANGED <<n, comparisons, matrix, principal>>
    /\ UNCHANGED <<topsisVars, deaVars, restVars>>

SensitivityNext ==
    \/ SensitivityBase
    \/ SensitivityVariant
    \/ SensitivityReturn

SpecSensitivity == InitSensitivity /\ [][SensitivityNext]_vars

\* C21: when ahp_sensitivity_analysis has returned for k distinct pairs,
\* 'variations' has exactly 2k entries, and every evaluated variant (pair,
\* factor) is one of them with its weights, weight_change = weights - base
\* weights, its CR and its is_consistent flag.
C21_EntryPerVariant ==
    apc = "returned" =>
        /\ Cardinality(DOMAIN result.results.variations) = 2 * Len(result.vary_indices)
        /\ \A a \in 1 .. Len(result.evaluated) :
               LET e == result.evaluated[a]
               IN  \E key \in DOMAIN result.results.variations :
                       LET entry == result.results.variations[key]
                       IN  /\ key[1] = e.i /\ key[2] = e.j
                           /\ entry.new_value = RMul(result.at_call[e.i][e.j], e.factor)
                           /\ entry.weights = e.result.weights
                           /\ \A c \in Idx(n) :
                                  RAdd(entry.weight_change[c],
                                       result.results.base_weights[c]) = e.result.weights[c]
                           /\ entry.cr = e.result.cr
                           /\ entry.is_consistent = e.result.is_consistent

\* C27: the caller's matrix is never changed, and every matrix that is
\* evaluated is the matrix of the call except in (i, j), which holds
\* base[i, j] * factor, and in (j, i), which holds 1 / (base[i, j] * factor).
C27_FreshCopyPerVariant ==
    apc \in {"loop", "returned"} =>
        /\ matrix = result.at_call
        /\ \A a \in 1 .. Len(result.evaluated) :
               LET e == result.evaluated[a]
                   pair == result.vary_indices[((a - 1) \div 2) + 1]
                   factor == IF (a - 1) % 2 = 0
                             THEN RSub(One, result.variation_range)
                             ELSE RAdd(One, result.variation_range)
                   scaled == RMul(result.at_call[pair[1]][pair[2]], factor)
               IN  \A r, c \in Idx(n) :
                       e.matrix[r][c] =
                           IF <<r, c>> = pair THEN scaled
                           ELSE IF <<c, r>> = pair THEN RDiv(One, scaled)
                           ELSE result.at_call[r][c]

\* two pairs on different cells of a 3 x 3 matrix have all been evaluated
C27_Witness ==
    /\ apc = "returned"
    /\ n = 3
    /\ Len(result.vary_indices) = 2
    /\ Len(result.evaluated) = 4
    /\ result.vary_indices[1] # <<result.vary_indices[2][2], result.vary_indices[2][1]>>
    /\ result.evaluated[4].matrix # result.evaluated[2].matrix

-----------------------------------------------------------------------------
(* AHP: one judgment raised *)

\* mutant: the eigenvector of the transposed matrix
PerronPairLeft(m, k) == PerronPair([i \in Idx(k) |-> [j \in Idx(k) |-> m[j][i]]], k)

\* the principal eigenpair ahp_weights takes from eig
PrincipalOf(m, k) == PerronPair(m, k)

\* a 5 x 5 matrix of Saaty-scale judgments, far from consistent
Saaty5 ==
    LET rows == << <<One,     R(1, 2), R(1, 9), R(1, 9), R(9, 1)>>,
                   <<R(2, 1), One,     R(1, 3), R(1, 8), R(1, 9)>>,
                   <<R(9, 1), R(3, 1), One,     R(1, 9), R(3, 1)>>,
                   <<R(9, 1), R(8, 1), R(9, 1), One,     R(7, 1)>>,
                   <<R(1, 9), R(9, 1), R(1, 3), R(1, 7), One>> >>
    IN  [i \in Idx(5) |-> [j \in Idx(5) |-> rows[i + 1][j + 1]]]

\* the factors by which a judgment is raised
Raises == {R(3, 2), R(2, 1)}

\* the matrix with judgment (i, j) raised and (j, i) set to its reciprocal
RaisedMatrix(m, i, j, factor) ==
    LET raised == RMul(m[i][j], factor)
    IN  [m EXCEPT ![i][j] = raised, ![j][i] = RDiv(One, raised)]

\* the caller holds a comparison matrix and the same matrix with one judgment
\* raised
InitMonotone ==
    /\ apc = "pair"
    /\ n \in (2 .. MaxN) \cup {5}
    /\ comparisons = <<>>
    /\ matrix \in (IF n <= MaxN THEN ComparisonMatrices(n) ELSE {Saaty5})
    /\ principal = NoVector
    /\ \E i, j \in Idx(n), factor \in Raises :
           /\ i # j
           /\ result = [status |-> "pair", i |-> i, j |-> j,
                        raised |-> RaisedMatrix(matrix, i, j, factor)]
    /\ tpc = "unused" /\ targs = <<>> /\ tres = <<>>
    /\ dpc = "unused" /\ dargs = <<>> /\ dres = <<>>
    /\ cache = <<>> /\ disk = <<>> /\ lpc = "unused"
    /\ plans = <<>> /\ ipc = "unused" /\ iargs = <<>> /\ ires = <<>>
    /\ ri_table = <<>> /\ memo = <<>> /\ lib = <<>>

\* ahp_weights(matrix) and ahp_weights(raised)
AhpWeightsOfBoth ==
    /\ apc = "pair"
    /\ LET p == PrincipalOf(matrix, n)
           q == PrincipalOf(result.raised, n)
       IN  /\ principal' = q.vec
           /\ result' = [status |-> "weighed", i |-> result.i, j |-> result.j,
                         raised |-> result.raised,
                         before |-> ahp_weights(matrix, n, p),
                         after |-> ahp_weights(result.raised, n, q)]
    /\ apc' = "weighed"
    /\ UNCHANGED <<n, comparisons, matrix>>
    /\ UNCHANGED <<topsisVars, deaVars, restVars>>

SpecMonotone == InitMonotone /\ [][AhpWeightsOfBoth]_vars

\* C22 as stated: for every positive reciprocal matrix, raising judgment
\* (i, j) does not lower weight[i] and does not raise weight[j].
C22_MonotoneAsStated ==
    apc = "weighed" =>
        /\ RLe(result.before.weights[result.i], result.after.weights[result.i])
        /\ RLe(result.after.weights[result.j], result.before.weights[result.j])

\* C22: for every positive reciprocal matrix of size at most 3, raising
\* judgment (i, j) does not lower weight[i] and does not raise weight[j].
C22_MonotoneUpToThree ==
    (apc = "weighed" /\ n <= 3) =>
        /\ RLe(result.before.weights[result.i], result.after.weights[result.i])
        /\ RLe(result.after.weights[result.j], result.before.weights[result.j])

\* a 3 x 3 matrix that is not consistent before or after, with weight[i]
\* strictly greater and weight[j] strictly smaller after
C22_Witness ==
    /\ apc = "weighed"
    /\ n = 3
    /\ \E a, b, c \in Idx(3) : RMul(matrix[a][b], matrix[b][c]) # matrix[a][c]
    /\ \E a, b, c \in Idx(3) :
           RMul(result.raised[a][b], result.raised[b][c]) # result.raised[a][c]
    /\ RLt(result.before.weights[result.i], result.after.weights[result.i])
    /\ RLt(result.after.weights[result.j], result.before.weights[result.j])

-----------------------------------------------------------------------------
(* The engines called one after another on the caller's arrays *)

\* most engine calls in one run
MaxEngineCalls == 3

\* RANDOM_INDEX as the module defines it
RandomIndexTable == [k \in 1 .. 10 |-> RANDOM_INDEX(k)]

\* RANDOM_INDEX.get(n, 1.49)
TableGet(table, k) == IF k \in DOMAIN table THEN table[k] ELSE R(149, 100)

\* mutant: ri = RANDOM_INDEX.pop(n, 1.49)
TableAfterPop(table, k) == [x \in DOMAIN table \ {k} |-> table[x]]

\* the table after ri = RANDOM_INDEX.get(n, 1.49)
TableAfterGet(table, k) == table

\* the answer a library routine gives where several are equally good: the
\* routine is deterministic, so it is the same one for the same candidates
RECURSIVE Nth(_, _)
Nth(S, k) ==
    LET x == CHOOSE y \in S : TRUE
    IN  IF k = 0 \/ S = {x} THEN x ELSE Nth(S \ {x}, k - 1)

\* ahp_weights(comparison_matrix)
AhpWeightsCall(m, k) == ahp_weights(m, k, PerronPair(m, k))

\* ahp_consistency_ratio(comparison_matrix), RANDOM_INDEX read from the table
AhpConsistencyRatioCall(table, m, k) ==
    LET w == AhpWeightsCall(m, k)
        ri == TableGet(table, k)
        cr == ConsistencyRatio(w.ci, ri)
        ok == IsConsistent(cr)
    IN  [weights |-> w.weights,
         lambda_max |-> w.lambda_max,
         ci |-> w.ci,
         ri |-> ri,
         cr |-> cr,
         is_consistent |-> ok,
         message |-> IF ok
                     THEN <<"Consistent (CR=", Format4(cr), " < 0.10)">>
                     ELSE <<"INCONSISTENT! CR=", Format4(cr), " >= 0.10. Revise judgments.">>]

\* the element of a set of one element
The(S) == CHOOSE x \in S : TRUE

\* results['variations'][key] = {...} for the variant evaluated as varied_result
WithVariant(results, k, i, j, factor, new_value, varied_result) ==
    [results EXCEPT
        !.variations = Put(@, VariantKey(i, j, factor),
            [new_value |-> new_value,
             weights |-> varied_result.weights,
             weight_change |-> [c \in Idx(k) |->
                 RSub(varied_result.weights[c], results.base_weights[c])],
             cr |-> varied_result.cr,
             is_consistent |-> varied_result.is_consistent])]

\* the loops of ahp_sensitivity_analysis from pass pos on: the caller's matrix
\* and the results dict at the end
RECURSIVE SensitivityLoop(_, _, _, _, _, _, _)
SensitivityLoop(table, m, k, vary_indices, variation_range, pos, results) ==
    IF pos = 2 * Len(vary_indices) THEN [comparison_matrix |-> m, results |-> results]
    ELSE LET i == vary_indices[(pos \div 2) + 1][1]
             j == vary_indices[(pos \div 2) + 1][2]
             factor == Factors(variation_range)[(pos % 2) + 1]
             new_value == RMul(m[i][j], factor)
         IN  The({The({The({SensitivityLoop(table, arrays.comparison_matrix, k,
                                            vary_indices, variation_range, pos + 1, next) :
                               next \in {WithVariant(results, k, i, j, factor, new_value,
                                                     varied_result)}}) :
                          varied_result \in
                              {AhpConsistencyRatioCall(table, arrays.varied_matrix, k)}}) :
                     arrays \in {Varied(m, i, j, new_value)}})

\* ahp_sensitivity_analysis(comparison_matrix, vary_indices, variation_range)
AhpSensitivityCall(table, m, k, vary_indices, variation_range) ==
    The({SensitivityLoop(table, m, k, vary_indices, variation_range, 0,
                         [base_weights |-> base_result.weights, variations |-> <<>>]) :
            base_result \in {AhpConsistencyRatioCall(table, m, k)}})

\* topsis_rank(decision_matrix, weights, criteria_types)
TopsisRankCall(args, tie) ==
    LET steps == Eval(topsis_steps(args.decision_matrix, args.weights, args.criteria_types))
    IN  topsis_rank(steps, Nth(ArgSortDescending(steps.closeness), tie))

\* the comparison matrices, TOPSIS arguments and DEA data the caller holds
PureMatrices ==
    {Cycle3} \cup {m \in ComparisonMatrices(3) :
                       m[0][1] = R(2, 1) /\ m[0][2] = R(3, 1) /\ m[1][2] = R(2, 1)}
PureTopsisArgs ==
    [decision_matrix : {[i \in Idx(2) |-> [j \in Criteria |-> R(3 + ((i + j) % 2), 1)]],
                        [i \in Idx(2) |-> [j \in Criteria |-> R(3 + i, 1)]]},
     weights : {WeightPair(One, One)},
     criteria_types : {[j \in Criteria |-> "benefit"]}]
PureDeaData ==
    [inputs : Tables(2, 1, {One}),
     outputs : {t \in Tables(2, 1, Positive) : t[0][0] = One}]

\* the calls the caller may make
Signatures ==
    {<<"ahp_weights">>, <<"ahp_consistency_ratio">>,
     <<"ahp_sensitivity_analysis", <<<<0, 1>>>>, R(1, 4)>>,
     <<"topsis_rank">>}
    \cup {<<"dea_efficiency", 0, "output">>, <<"dea_efficiency", 1, "input">>}
    \cup {<<"dea_efficiency_all", "output">>}

\* a call with the arrays it was handed
WithArrays(sig) ==
    CASE sig[1] \in {"ahp_weights", "ahp_consistency_ratio", "ahp_sensitivity_analysis"} ->
             <<sig, matrix>>
      [] sig[1] = "topsis_rank" -> <<sig, targs>>
      [] OTHER -> <<sig, dargs>>

InitPure ==
    /\ apc = "calling"
    /\ n = 3
    /\ comparisons = <<>>
    /\ matrix \in PureMatrices
    /\ principal = NoVector
    /\ result = [history |-> <<>>, call |-> <<>>, value |-> <<>>]
    /\ tpc = "calling" /\ targs \in PureTopsisArgs /\ tres = <<>>
    /\ dpc = "calling" /\ dargs \in PureDeaData /\ dres = <<>>
    /\ cache = <<>> /\ disk = <<>> /\ lpc = "unused"
    /\ plans = <<>> /\ ipc = "unused" /\ iargs = <<>> /\ ires = <<>>
    /\ ri_table = RandomIndexTable
    /\ memo = <<>>
    /\ lib \in 0 .. 1

\* the caller's record of a call: the first result of every call made is kept
Returned(sig, value) ==
    /\ result' = [history |-> Append(result.history, sig),
                  call |-> WithArrays(sig), value |-> value]
    /\ memo' = IF WithArrays(sig) \in DOMAIN memo THEN memo
               ELSE Put(memo, WithArrays(sig), value)
    /\ UNCHANGED <<apc, n, comparisons, principal, tpc, tres, dpc, dres, lib>>
    /\ UNCHANGED <<loaderVars, icVars>>

CallAhpWeights ==
    /\ Len(result.history) < MaxEngineCalls
    /\ Returned(<<"ahp_weights">>, AhpWeightsCall(matrix, n))
    /\ UNCHANGED <<matrix, targs, dargs, ri_table>>

CallAhpConsistencyRatio ==
    /\ Len(result.history) < MaxEngineCalls
    /\ Returned(<<"ahp_consistency_ratio">>, AhpConsistencyRatioCall(ri_table, matrix, n))
    /\ ri_table' = TableAfterGet(ri_table, n)
    /\ UNCHANGED <<matrix, targs, dargs>>

CallAhpSensitivity ==
    /\ Len(result.history) < MaxEngineCalls
    /\ \E sig \in {s \in Signatures : s[1] = "ahp_sensitivity_analysis"} :
           LET after == AhpSensitivityCall(ri_table, matrix, n, sig[2], sig[3])
           IN  /\ Returned(sig, after.results)
               /\ matrix' = after.comparison_matrix
    /\ ri_table' = TableAfterGet(ri_table, n)
    /\ UNCHANGED <<targs, dargs>>

CallTopsisRank ==
    /\ Len(result.history) < MaxEngineCalls
    /\ Returned(<<"topsis_rank">>, TopsisRankCall(targs, lib))
    /\ UNCHANGED <<matrix, targs, dargs, ri_table>>

CallDeaEfficiency ==
    /\ Len(result.history) < MaxEngineCalls
    /\ \E sig \in {s \in Signatures : s[1] = "dea_efficiency"} :
           Returned(sig, Nth(dea_efficiency(dargs.inputs, dargs.outputs, sig[2], sig[3],
                                            FALSE), lib))
    /\ UNCHANGED <<matrix, targs, dargs, ri_table>>

CallDeaEfficiencyAll ==
    /\ Len(result.history) < MaxEngineCalls
    /\ \E sig \in {s \in Signatures : s[1] = "dea_efficiency_all"} :
           Returned(sig, Nth(dea_efficiency_all(dargs.inputs, dargs.outputs, sig[2], {}),
                             lib))
    /\ UNCHANGED <<matrix, targs, dargs, ri_table>>

PureNext ==
    \/ CallAhpWeights
    \/ CallAhpConsistencyRatio
    \/ CallAhpSensitivity
    \/ CallTopsisRank
    \/ CallDeaEfficiency
    \/ CallDeaEfficiencyAll

SpecPure == InitPure /\ [][PureNext]_vars

C24_WitnessTie ==
    /\ Len(result.history) = 3
    /\ result.history[1] = <<"topsis_rank">>
    /\ result.history[3] = <<"topsis_rank">>
    /\ result.history[2][1] = "dea_efficiency_all"
    /\ result.value.closeness[0] = result.value.closeness[1]

====
